---- MODULE Spec2Model ----
(***************************************************************************)
(* Route assembly of Maps_AI: the fallback agent's waypoint merge          *)
(* (fallback_agent.py), the scenic agent's selector, scorer, extractor and *)
(* assembler (scenic_agent.py) and the fitness agent's assembler           *)
(* (fitness_agent.py).  One request is one sequential run: pc is the       *)
(* position in the handler, and every provider call (geocode, directions,  *)
(* places, elevation, planning) is one step whose answer is chosen by the  *)
(* environment.                                                            *)
(*                                                                         *)
(* Waypoints are Python dicts and are modelled as records whose domain is  *)
(* the dict's key set: {"name": n} is [name |-> n], a dict with            *)
(* coordinates is [name |-> n, lat |-> a, lng |-> b].                      *)
(***************************************************************************)
EXTENDS Integers, Sequences, FiniteSets, TLC

VARIABLES
    pc,         \* position in the running handler
    intent,     \* the RouteIntent of the request
    world,      \* what the providers can answer with
    fixed,      \* fallback: origin + GSR stops          (fallback_agent.py:42)
    gpt_wpts,   \* fallback: the planning model's list   (fallback_agent.py:54)
    merged,     \* fallback: the merged output           (fallback_agent.py:63)
    points,     \* scenic: the key points                (scenic_agent.py:31)
    stops,      \* scenic: the copy of intent.stops      (scenic_agent.py:38)
    dest_point, \* scenic: a promoted last stop          (scenic_agent.py:39)
    last,       \* scenic: the stop popped for promotion (scenic_agent.py:41)
    si,         \* scenic: index of the stop being resolved
    waypoints,  \* scenic: the output being built        (scenic_agent.py:73)
    leg,        \* scenic: index of the leg being processed
    routes,     \* selector: decoded alternatives        (scenic_agent.py:97)
    ri,         \* selector: index of the alternative being scored
    pi,         \* scorer: index of the sample being queried
    total,      \* scorer: POI count so far              (scenic_agent.py:115)
    poi,        \* selector: POI-density score           (scenic_agent.py:107)
    elev,       \* selector: elevation-variation score   (scenic_agent.py:108)
    scored,     \* selector: (score, pts) pairs          (scenic_agent.py:104)
    coords,     \* scenic: the selected path             (scenic_agent.py:77)
    xi,         \* extractor: index of the sample being queried
    results,    \* extractor: the last places answer     (scenic_agent.py:132)
    seen,       \* extractor: place ids accepted         (scenic_agent.py:129)
    wpts,       \* extractor: waypoints accepted         (scenic_agent.py:130)
    mode,       \* fitness: the travel mode              (fitness_agent.py:55)
    steps_m,    \* fitness: steps goal, tenths of a metre (fitness_agent.py:63)
    target_m,   \* fitness: distance goal, tenths of a metre (fitness_agent.py:65)
    target_cal, \* fitness: calorie goal, tenths         (fitness_agent.py:67)
    start,      \* fitness: the geocoded origin          (fitness_agent.py:75,96)
    end,        \* fitness: the geocoded destination     (fitness_agent.py:97)
    fpoi,       \* fitness: the loop's park or trail     (fitness_agent.py:76)
    route,      \* fitness: directions[0]                (fitness_agent.py:108)
    out,        \* fitness: the output being built       (fitness_agent.py:116)
    extras,     \* fitness: the planner's extra waypoints (fitness_agent.py:144)
    entry,      \* which entry point serves the request: main.py or starter.py
    prompt,     \* handler: the prompt of the request   (main.py:26)
    agent,      \* handler: the agent dispatched to      (main.py:40-53)
    response,   \* handler: the response sent            (main.py:56-67)
    enriched,   \* parser: the stops enriched so far     (starter.py:84)
    warnings,   \* parser: failed searches passed over   (starter.py:101-104)
    error,      \* the exception raised, None if none
    env_key,    \* NVIDIA_API_KEY of the environment    (starter.py:20)
    api_key,    \* client: self.api_key                 (nvidia_agent.py:25)
    mock_mode,  \* client: self.mock_mode               (nvidia_agent.py:29)
    messages,   \* client: the messages of the call     (nvidia_agent.py:31)
    posts,      \* client: the HTTP requests of the call (nvidia_agent.py:53-65)
    calls,      \* client: the calls answered so far, with their answers
    reply       \* the planning service's last answer   (nvidia_agent.py:71)

fbVars == <<fixed, gpt_wpts, merged>>
asmVars == <<points, stops, dest_point, last, si, waypoints, leg>>
selVars == <<routes, ri, pi, total, poi, elev, scored>>
extVars == <<coords, xi, results, seen, wpts>>
scVars == <<asmVars, selVars, extVars>>

ftVars == <<mode, steps_m, target_m, target_cal, start, end, fpoi, route, out, extras>>

rtVars == <<entry, prompt, agent, response, enriched, warnings>>

nvVars == <<env_key, api_key, mock_mode, messages, posts, calls>>

vars == <<pc, intent, world, error, reply, fbVars, scVars, ftVars, rtVars, nvVars>>

(***************************************************************************)
(* Bounds of the model.                                                    *)
(***************************************************************************)
MaxStops == 2       \* most stops an intent carries
MaxPrimary == 3     \* most waypoints the planning model proposes
MaxAlts == 2        \* most alternatives the routing provider returns
MaxCount == 1       \* most results of one POI-density places query
MaxPlaces == 6      \* places the places provider knows along one path
MaxPathLen == 7     \* longest decoded path handed to the extractor

(***************************************************************************)
(* Generic helpers.                                                        *)
(***************************************************************************)
SeqsUpTo(S, n) == UNION {[1..k -> S] : k \in 0..n}

Range(s) == {s[i] : i \in 1..Len(s)}

\* s[1:] of a Python list: empty for the empty list.
Rest(s) == IF s = <<>> THEN <<>> ELSE Tail(s)

\* None, where the code holds a string or None.
None == "<None>"

\* None, where the code holds a waypoint dict or None.
NoPoint == [none |-> TRUE]

\* None, where the code holds a number or None.
NoGoal == -1

Pt(n, a, b) == [name |-> n, lat |-> a, lng |-> b]

Gsr(n, a, b) == [name |-> n, latitude |-> a, longitude |-> b]

\* Text is the sequence of its tokens: a run of digits is [digits |-> n],
\* another piece of text is [word |-> w], and a JSON value the program does
\* not look into is the value itself.
Num(n) == [digits |-> n]

W(w) == [word |-> w]

IsDigits(tok) == "digits" \in DOMAIN tok

IsWord(tok, w) == "word" \in DOMAIN tok /\ tok.word = w

IsItem(tok) == "word" \notin DOMAIN tok /\ "digits" \notin DOMAIN tok

\* str.find and str.rfind of a one-token piece of text: 0 if it is absent.
Find(text, w) ==
    IF \E j \in 1..Len(text) : IsWord(text[j], w)
    THEN CHOOSE j \in 1..Len(text) :
            IsWord(text[j], w) /\ \A k \in 1..(j - 1) : ~IsWord(text[k], w)
    ELSE 0

RFind(text, w) ==
    IF \E j \in 1..Len(text) : IsWord(text[j], w)
    THEN CHOOSE j \in 1..Len(text) :
            IsWord(text[j], w) /\ \A k \in (j + 1)..Len(text) : ~IsWord(text[k], w)
    ELSE 0

\* text[i:j+1] of a Python string: empty if j < i.
Slice(text, i, j) == IF j < i THEN <<>> ELSE SubSeq(text, i, j)

\* json.loads succeeds on an array text: brackets around values only.
IsJsonArray(text) ==
    /\ Len(text) >= 2
    /\ IsWord(text[1], "[")
    /\ IsWord(text[Len(text)], "]")
    /\ \A j \in 2..(Len(text) - 1) : IsItem(text[j])

\* json.loads succeeds on an object text: braces around the members.
IsJsonObject(text) ==
    /\ Len(text) = 3
    /\ IsWord(text[1], "{")
    /\ IsItem(text[2])
    /\ IsWord(text[3], "}")

\* re.search(open + ".*" + close, text, re.DOTALL): the greedy match from
\* the first opening token that a closing token follows, to the last closing
\* token; empty if there is none.
Search(text, open, close) ==
    IF Find(text, open) # 0 /\ RFind(text, close) > Find(text, open)
    THEN SubSeq(text, Find(text, open), RFind(text, close))
    ELSE <<>>

(***************************************************************************)
(* Fallback agent: FallbackAgent.get_waypoints.                            *)
(***************************************************************************)

\* pt.get(f) rendered by an f-string: the value's text, "None" when absent.
GetStr(pt, f) == IF f \in DOMAIN pt THEN ToString(pt[f]) ELSE "None"

\* key(pt): f"{pt.get('name')}|{pt.get('lat')}|{pt.get('lng')}"
key(pt) == pt.name \o "|" \o GetStr(pt, "lat") \o "|" \o GetStr(pt, "lng")

\* The loops "for pt in pts: k = key(pt); if k not in seen: append, add".
\* acc is [m |-> merged so far, s |-> seen so far].
RECURSIVE AddUnseen_NoCheck(_, _)
AddUnseen_NoCheck(acc, pts) ==
    IF pts = <<>> THEN acc
    ELSE AddUnseen_NoCheck([m |-> Append(acc.m, Head(pts)),
                            s |-> acc.s \cup {key(Head(pts))}], Tail(pts))

RECURSIVE AddUnseen(_, _)
AddUnseen(acc, pts) ==
    IF pts = <<>> THEN acc
    ELSE LET k == key(Head(pts))
         IN  IF k \notin acc.s
             THEN AddUnseen([m |-> Append(acc.m, Head(pts)), s |-> acc.s \cup {k}],
                            Tail(pts))
             ELSE AddUnseen(acc, Tail(pts))

\* A merge that emits the model's tail before the fixed stops.
MergeWaypoints_TailFirst(primary, required) ==
    LET a == IF primary # <<>>
             THEN [m |-> <<primary[1]>>, s |-> {key(primary[1])}]
             ELSE [m |-> <<>>, s |-> {}]
        c == AddUnseen(a, Rest(primary))
        b == AddUnseen(c, Rest(required))
    IN  IF b.m = <<>> THEN required ELSE b.m

\* A merge whose last loop appends the model's tail without the seen check.
MergeWaypoints_TailUnchecked(primary, required) ==
    LET a == IF primary # <<>>
             THEN [m |-> <<primary[1]>>, s |-> {key(primary[1])}]
             ELSE [m |-> <<>>, s |-> {}]
        b == AddUnseen(a, Rest(required))
        c == AddUnseen_NoCheck(b, Rest(primary))
    IN  IF c.m = <<>> THEN required ELSE c.m

\* Steps a) to d) of the merge: primary is gpt_wpts, required is fixed.
MergeWaypoints(primary, required) ==
    LET a == IF primary # <<>>
             THEN [m |-> <<primary[1]>>, s |-> {key(primary[1])}]
             ELSE [m |-> <<>>, s |-> {}]
        b == AddUnseen(a, Rest(required))
        c == AddUnseen(b, Rest(primary))
    IN  IF c.m = <<>> THEN required ELSE c.m

\* stop.get("gsr"): present and a non-empty list.
HasGsr(stop) == "gsr" \in DOMAIN stop /\ stop.gsr # <<>>

\* fixed: the origin by name only, then the first GSR hit of every stop
\* that has one.
RECURSIVE GsrStops(_)
GsrStops(sts) ==
    IF sts = <<>> THEN <<>>
    ELSE LET stop == Head(sts)
         IN  IF HasGsr(stop)
             THEN <<Pt(stop.gsr[1].name, stop.gsr[1].latitude, stop.gsr[1].longitude)>>
                  \o GsrStops(Tail(sts))
             ELSE GsrStops(Tail(sts))

BuildFixed(i) == <<[name |-> i.origin]>> \o GsrStops(i.stops)

\* isinstance(wp.get("lat"), (int, float)) and the same for "lng".
HasCoords(wp) == "lat" \in DOMAIN wp /\ "lng" \in DOMAIN wp

NeedsGeocode(wps) == {i \in 1..Len(wps) : ~HasCoords(wps[i])}

\* The places the planning model and the text search can name.
FbPoints == {Pt("A", 1, 1), Pt("A", 2, 1), Pt("B", 1, 1), Pt("C", 1, 1), Pt("D", 1, 1)}

\* What the planning model may answer with: full waypoints, or a name whose
\* coordinates are placeholders.
GptPoints == FbPoints \cup {[name |-> "B"], Pt("O", 1, 1), Pt("Z", 1, 1)}

\* What the geocoder may answer with.
GeoCoords == {<<1, 1>>, <<2, 1>>}

FbStops == {[name |-> "s", gsr |-> <<>>]}
             \cup {[name |-> "s", gsr |-> <<Gsr(p.name, p.lat, p.lng)>>] :
                      p \in {Pt("A", 1, 1), Pt("B", 1, 1), Pt("D", 1, 1)}}

FbIntents == {[intent_type |-> "Other", origin |-> "O", destination |-> "Z",
               city |-> None, stops |-> s] : s \in SeqsUpTo(FbStops, MaxStops)}

\* The planning client's variables where its calls are single steps: the
\* key is configured (starter.py:20-22 has passed) and no call is recorded.
NvIdle ==
    /\ env_key = "k"
    /\ api_key = None
    /\ mock_mode = TRUE
    /\ messages = NoPoint
    /\ posts = <<>>
    /\ calls = <<>>

\* The fallback agent's variables before it runs.
FbIdle ==
    /\ fixed = <<>>
    /\ gpt_wpts = <<>>
    /\ merged = <<>>

\* The selector's and scorer's locals outside a call of _best_scenic_segment.
SelIdle ==
    /\ routes = <<>>
    /\ ri = 0
    /\ pi = 0
    /\ total = 0
    /\ poi = [num |-> 0, den |-> 1]
    /\ elev = 0
    /\ scored = <<>>

\* The extractor's locals before its first call.
ExtIdle ==
    /\ coords = <<>>
    /\ xi = 0
    /\ results = <<>>
    /\ seen = {}
    /\ wpts = <<>>

\* The scenic agent's variables before it runs.
ScIdle ==
    /\ points = <<>>
    /\ stops = <<>>
    /\ dest_point = NoPoint
    /\ last = NoPoint
    /\ si = 0
    /\ waypoints = <<>>
    /\ leg = 0
    /\ SelIdle
    /\ ExtIdle

\* The handler's variables when an agent is called on its own.
RtIdle ==
    /\ entry = None
    /\ prompt = None
    /\ agent = None
    /\ response = NoPoint
    /\ enriched = <<>>
    /\ warnings = 0

\* The fitness agent's variables before it runs.
FtIdle ==
    /\ mode = None
    /\ steps_m = NoGoal
    /\ target_m = NoGoal
    /\ target_cal = NoGoal
    /\ start = NoPoint
    /\ end = NoPoint
    /\ fpoi = NoPoint
    /\ route = NoPoint
    /\ out = <<>>
    /\ extras = <<>>

NoWorld == [geo |-> {}, alts |-> {}, lens |-> {}, counts |-> {}, elevs |-> {},
            places |-> {}]

InitFallback ==
    /\ pc = "fb_plan"
    /\ intent \in FbIntents
    /\ world = NoWorld
    /\ FbIdle
    /\ NvIdle
    /\ reply = <<>>
    /\ error = None
    /\ RtIdle
    /\ FtIdle
    /\ ScIdle

\* After the geocode loop: merge and return, or go on geocoding.
FbContinue(wps, fx) ==
    IF NeedsGeocode(wps) = {}
    THEN /\ merged' = MergeWaypoints(wps, fx)
         /\ pc' = "fb_done"
    ELSE /\ merged' = merged
         /\ pc' = "fb_geocode"

\* A JSON array of the waypoints l, as the service writes it.
ArrayText(l) == <<W("[")>> \o l \o <<W("]")>>

\* Answers that are no JSON array of waypoints: empty, prose, an unclosed or
\* reversed bracket, prose inside the brackets.
BadArrayTexts ==
    {<<>>, <<W("x")>>, <<W("["), Pt("A", 1, 1)>>, <<W("]"), W("[")>>,
     <<W("["), W("x"), W("]")>>, <<W("["), Pt("A", 1, 1), W("x"), W("]")>>}

\* What the planning service may answer to plan_route: an array of up to
\* MaxPrimary waypoints, an array inside prose, or no array.
PlanTexts ==
    {ArrayText(l) : l \in SeqsUpTo(GptPoints, MaxPrimary)}
      \cup {<<W("x")>> \o ArrayText(l) \o <<W("x")>> : l \in SeqsUpTo({Pt("A", 1, 1)}, 1)}
      \cup BadArrayTexts

\* nvidia_agent.py:275-282: the text from the first "[" to the last "]" is
\* loaded as JSON; a missing bracket and invalid JSON raise RuntimeError.
PlanRouteSpan(text) == Slice(text, Find(text, "["), RFind(text, "]"))

PlanRouteError(text) ==
    IF Find(text, "[") = 0 \/ RFind(text, "]") = 0 THEN "No JSON array found"
    ELSE IF ~IsJsonArray(PlanRouteSpan(text)) THEN "Invalid JSON"
    ELSE None

PlanRouteValue(text) == SubSeq(PlanRouteSpan(text), 2, Len(PlanRouteSpan(text)) - 1)

\* Lines 41-54: build fixed, ask the planning model; it answers with a list.
FbPlanRoute ==
    /\ pc = "fb_plan"
    /\ \E text \in PlanTexts :
        /\ PlanRouteError(text) = None
        /\ reply' = text
        /\ fixed' = BuildFixed(intent)
        /\ gpt_wpts' = PlanRouteValue(text)
        /\ FbContinue(PlanRouteValue(text), BuildFixed(intent))
    /\ UNCHANGED <<intent, world, nvVars, error, rtVars, ftVars, scVars>>

\* nvidia_agent.py:275-282: the answer holds no JSON array, or invalid JSON.
FbPlanRouteNoJson ==
    /\ pc = "fb_plan"
    /\ \E text \in PlanTexts :
        /\ PlanRouteError(text) # None
        /\ reply' = text
        /\ error' = PlanRouteError(text)
    /\ fixed' = BuildFixed(intent)
    /\ pc' = "fb_error"
    /\ UNCHANGED <<intent, world, nvVars, rtVars, ftVars, scVars, gpt_wpts, merged>>

\* plan_route raises on an API error.
FbPlanRouteFails ==
    /\ pc = "fb_plan"
    /\ fixed' = BuildFixed(intent)
    /\ pc' = "fb_error"
    /\ error' = "Planning failed"
    /\ UNCHANGED <<intent, world, nvVars, reply, rtVars, ftVars, scVars, gpt_wpts, merged>>

\* Lines 57-60: the next waypoint without coordinates is geocoded.
FbGeocode ==
    /\ pc = "fb_geocode"
    /\ LET i == CHOOSE j \in NeedsGeocode(gpt_wpts) :
                    \A k \in NeedsGeocode(gpt_wpts) : j <= k
       IN  \E c \in GeoCoords :
             LET filled == [gpt_wpts EXCEPT ![i] = Pt(gpt_wpts[i].name, c[1], c[2])]
             IN  /\ gpt_wpts' = filled
                 /\ FbContinue(filled, fixed)
    /\ UNCHANGED <<intent, world, nvVars, reply, error, rtVars, ftVars, scVars, fixed>>

\* _geocode_name raises RuntimeError on an empty answer.
FbGeocodeFails ==
    /\ pc = "fb_geocode"
    /\ pc' = "fb_error"
    /\ error' = "Geocode failed"
    /\ UNCHANGED <<intent, world, nvVars, reply, rtVars, ftVars, scVars, fbVars>>

NextFallback ==
    \/ FbPlanRoute
    \/ FbPlanRouteNoJson
    \/ FbPlanRouteFails
    \/ FbGeocode
    \/ FbGeocodeFails

SpecFallback == InitFallback /\ [][NextFallback]_vars

(***************************************************************************)
(* Claims about the fallback agent's merge.                                *)
(***************************************************************************)
FbDone == pc = "fb_done"

Keys(s) == {key(s[i]) : i \in 1..Len(s)}

\* The entries of s at the indices in I, in order.
RECURSIVE KeepIdx(_, _, _)
KeepIdx(s, I, from) ==
    IF from > Len(s) THEN <<>>
    ELSE (IF from \in I THEN <<s[from]>> ELSE <<>>) \o KeepIdx(s, I, from + 1)

\* The entries of s whose identity is not in excl and has not occurred
\* earlier in s.
FirstNew(s, excl) ==
    KeepIdx(s, {i \in 1..Len(s) : /\ key(s[i]) \notin excl
                                  /\ \A j \in 1..(i - 1) : key(s[j]) # key(s[i])}, 1)

\* C1: the merged output of the fallback agent never holds two entries with
\* the same name|lat|lng identity key, whatever the model's list and the
\* fixed list are (empty model list and repeated entries included).
C1_MergeNoDuplicateKeys ==
    FbDone => \A i, j \in 1..Len(merged) : i # j => key(merged[i]) # key(merged[j])

\* C1 witness: both lists hold a repeated identity and the merge has run.
C1_Witness ==
    /\ FbDone
    /\ Len(merged) >= 3
    /\ Cardinality(Keys(gpt_wpts)) < Len(gpt_wpts)
    /\ Cardinality(Keys(fixed)) < Len(fixed)

\* C2: for a non-empty model list the merged output is the model's head,
\* then the fixed stops (fixed without its head) not emitted yet, then the
\* model's tail not emitted yet; [A,B,C] merged with [_,D] is [A,D,B,C].
C2_MergePrecedence ==
    (FbDone /\ gpt_wpts # <<>>) =>
        /\ merged = <<gpt_wpts[1]>>
                    \o FirstNew(Rest(fixed), {key(gpt_wpts[1])})
                    \o FirstNew(Rest(gpt_wpts),
                                {key(gpt_wpts[1])} \cup Keys(Rest(fixed)))
        /\ (/\ gpt_wpts = <<Pt("A", 1, 1), Pt("B", 1, 1), Pt("C", 1, 1)>>
            /\ Rest(fixed) = <<Pt("D", 1, 1)>>)
           => merged = <<Pt("A", 1, 1), Pt("D", 1, 1), Pt("B", 1, 1), Pt("C", 1, 1)>>

\* C2 witness: the scenario primary = [A,B,C], required = [origin, D].
C2_Witness ==
    /\ FbDone
    /\ gpt_wpts = <<Pt("A", 1, 1), Pt("B", 1, 1), Pt("C", 1, 1)>>
    /\ Rest(fixed) = <<Pt("D", 1, 1)>>
    /\ Len(merged) = 4

\* C3: merging the merged output with the same fixed list again changes
\* nothing: same entries, same order.
C3_MergeIdempotent ==
    FbDone => MergeWaypoints(merged, fixed) = merged

\* C3 witness: a merge that dropped a duplicate and interleaved both lists.
C3_Witness ==
    /\ FbDone
    /\ Len(fixed) >= 2
    /\ Len(gpt_wpts) >= 2
    /\ Len(merged) >= 3
    /\ Len(merged) < Len(gpt_wpts) + Len(fixed) - 1

\* C4 (as claimed): whenever the model's list is empty the output is the
\* fixed list verbatim, its head included.
C4_EmptyPrimaryReturnsRequired ==
    (FbDone /\ gpt_wpts = <<>>) => merged = fixed

(***************************************************************************)
(* Scenic agent: ScenicAgent (scenic_agent.py).                            *)
(***************************************************************************)
Max(a, b) == IF a >= b THEN a ELSE b

Min(a, b) == IF a <= b THEN a ELSE b

Abs(a) == IF a >= 0 THEN a ELSE 0 - a

\* len(wpts) >= 5: the extractor's cap.
MaxWaypoints == 5

\* A decoded overview polyline: the n coordinate pairs of alternative a.
Path(a, n) == [i \in 1..n |-> <<a, i>>]

\* interval = max(1, len(coords) // 10)
Stride(cs) == Max(1, Len(cs) \div 10)

\* coords[::interval]
Samples(cs) ==
    LET iv == Stride(cs)
    IN  [k \in 1..((Len(cs) + iv - 1) \div iv) |-> cs[(k - 1) * iv + 1]]

\* total / max(1, len(coords) / 1000), as an exact fraction.
PoiDensity(t, n) == [num |-> t * 1000, den |-> Max(1000, n)]

\* sum(abs(vals[i] - vals[i-1]) for i in range(1, len(vals)))
RECURSIVE Variation(_)
Variation(vals) ==
    IF Len(vals) < 2 THEN 0
    ELSE Abs(vals[2] - vals[1]) + Variation(Tail(vals))

Composite_FullElev(p, e) == [num |-> p.num + e * p.den, den |-> p.den]

\* score = poi + 0.5 * elev, as an exact fraction.
Composite(p, e) == [num |-> 2 * p.num + e * p.den, den |-> 2 * p.den]

\* a > b on fractions with positive denominators.
Greater(a, b) == a.num * b.den > b.num * a.den

RECURSIVE MaxFrom_LastWins(_, _, _)
MaxFrom_LastWins(s, i, best) ==
    IF i > Len(s) THEN best
    ELSE MaxFrom_LastWins(s, i + 1,
                          IF ~Greater(best.score, s[i].score) THEN s[i] ELSE best)

\* max(scored, key=lambda x: x[0]): the running best is replaced only by a
\* strictly greater score, so the first maximal pair wins.
RECURSIVE MaxFrom(_, _, _)
MaxFrom(s, i, best) ==
    IF i > Len(s) THEN best
    ELSE MaxFrom(s, i + 1, IF Greater(s[i].score, best.score) THEN s[i] ELSE best)

Best(s) == MaxFrom(s, 2, s[1])

\* A place the places provider knows.
Place(i) == [place_id |-> i, name |-> "P" \o ToString(i), lat |-> 10 + i, lng |-> 20 + i]

\* not s, for a string or None.
Falsy(s) == s = None \/ s = ""

\* s.strip(), on the strings the intents of the model carry.
Strip(s) == IF s = " " THEN "" ELSE s

Promotes_OnlyUnset(i) == Falsy(i.destination) /\ i.stops # <<>>

\* (not intent.destination or not intent.destination.strip()) and stops
Promotes(i) ==
    /\ (Falsy(i.destination) \/ Strip(i.destination) = "")
    /\ i.stops # <<>>

\* intent.destination or (f"Nearby {city}" if hint and city else origin)
DestStr(i) ==
    IF ~Falsy(i.destination) THEN i.destination
    ELSE IF ~Falsy(i.city) THEN "Nearby " \o i.city
    ELSE i.origin

\* stop.get("address") or stop["name"]
StopAddr(stop) ==
    IF "address" \in DOMAIN stop /\ ~Falsy(stop.address) THEN stop.address
    ELSE stop.name

\* The point of a stop with enriched results: g = stop["gsr"][0],
\* named g.get("name", stop["name"]).
GsrPoint(stop) ==
    LET g == stop.gsr[1]
    IN  Pt(IF "name" \in DOMAIN g THEN g.name ELSE stop.name, g.latitude, g.longitude)

\* The loop over intermediate stops up to the next geocode call: stops with
\* enriched results are appended without a call.
RECURSIVE WalkStops(_, _, _)
WalkStops(pts, sts, i) ==
    IF i > Len(sts) THEN [points |-> pts, si |-> i]
    ELSE IF HasGsr(sts[i]) THEN WalkStops(Append(pts, GsrPoint(sts[i])), sts, i + 1)
    ELSE [points |-> pts, si |-> i]

\* The geocoder of the assembler's world: one answer for every query.
Loc(q) ==
    CASE q = "O" -> 1
      [] q = "S1" -> 2
      [] q = "a2" -> 3
      [] q = "D" -> 4
      [] q = "Nearby SF" -> 5
      [] OTHER -> 6

ScQueries == {"O", "S1", "a2", "D", "Nearby SF", " "}

ScGeo == [q \in ScQueries |-> {[lat |-> Loc(q), lng |-> Loc(q)]}]

ScStops == {[name |-> "S1"],
            [name |-> "S2", address |-> "a2", gsr |-> <<>>],
            [name |-> "S3", gsr |-> <<Gsr("G3", 7, 7)>>]}

ScIntents == {[intent_type |-> "Scenic", origin |-> "O", destination |-> d,
               city |-> c, stops |-> s] :
                 d \in {None, " ", "D"}, c \in {None, "SF"},
                 s \in SeqsUpTo(ScStops, MaxStops)}

\* The providers of the assembler's runs: short paths, few places.
AsmWorld == [geo |-> ScGeo, alts |-> 0..2, lens |-> {1}, counts |-> {0, 1},
             elevs |-> {0}, places |-> {Place(1), Place(2)}]

\* The providers of one leg's selection.
LegWorld == [geo |-> ScGeo, alts |-> 0..MaxAlts, lens |-> {1, 3},
             counts |-> 0..MaxCount, elevs |-> {0, 10, 50},
             places |-> {Place(1), Place(2)}]

\* The providers of one extraction.
ExtWorld == [geo |-> ScGeo, alts |-> {1}, lens |-> 1..MaxPathLen, counts |-> {0},
             elevs |-> {0}, places |-> {Place(i) : i \in 1..MaxPlaces}]

\* What the routing provider may answer with: k decoded alternatives.
RouteLists(w) ==
    UNION {{[a \in 1..k |-> Path(a, f[a])] : f \in [1..k -> w.lens]} :
              k \in w.alts \ {0}}

InitScenic ==
    /\ pc = "sc_origin"
    /\ intent \in ScIntents
    /\ world = AsmWorld
    /\ FbIdle
    /\ NvIdle
    /\ reply = <<>>
    /\ error = None
    /\ RtIdle
    /\ FtIdle
    /\ ScIdle

\* The run of a request O -> D without stops, at the routing query of its
\* only leg.
InitLeg ==
    /\ pc = "sc_directions"
    /\ intent = [intent_type |-> "Scenic", origin |-> "O", destination |-> "D",
                 city |-> None, stops |-> <<>>]
    /\ world = LegWorld
    /\ FbIdle
    /\ NvIdle
    /\ reply = <<>>
    /\ error = None
    /\ RtIdle
    /\ FtIdle
    /\ points = <<Pt("O", 1, 1), Pt("D", 4, 4)>>
    /\ stops = <<>>
    /\ dest_point = NoPoint
    /\ last = NoPoint
    /\ si = 1
    /\ waypoints = <<Pt("O", 1, 1)>>
    /\ leg = 1
    /\ SelIdle
    /\ ExtIdle

\* The same run at the first places query of the extractor, after a single
\* alternative of n points scored 0.
InitExtract ==
    /\ pc = "sc_extract"
    /\ intent = [intent_type |-> "Scenic", origin |-> "O", destination |-> "D",
                 city |-> None, stops |-> <<>>]
    /\ world = ExtWorld
    /\ FbIdle
    /\ NvIdle
    /\ reply = <<>>
    /\ error = None
    /\ RtIdle
    /\ FtIdle
    /\ points = <<Pt("O", 1, 1), Pt("D", 4, 4)>>
    /\ stops = <<>>
    /\ dest_point = NoPoint
    /\ last = NoPoint
    /\ si = 1
    /\ waypoints = <<Pt("O", 1, 1)>>
    /\ leg = 1
    /\ \E n \in ExtWorld.lens :
        /\ routes = <<Path(1, n)>>
        /\ ri = 1
        /\ pi = Len(Samples(Path(1, n)))
        /\ total = 0
        /\ poi = PoiDensity(0, n)
        /\ elev = 0
        /\ scored = <<[score |-> Composite(PoiDensity(0, n), 0), pts |-> Path(1, n)]>>
        /\ coords = Path(1, n)
    /\ xi = 1
    /\ results = <<>>
    /\ seen = {}
    /\ wpts = <<>>

\* Line 73 and the first iteration of line 76: the output starts with the
\* origin and the first leg's routing query is issued.
ScBeginLegs(pts) ==
    /\ points' = pts
    /\ waypoints' = <<pts[1]>>
    /\ leg' = 1
    /\ pc' = "sc_directions"

\* Lines 50-70 from stop i on, up to the next provider call.
ScToStops(pts, sts, i, dp) ==
    LET w == WalkStops(pts, sts, i)
    IN  /\ stops' = sts
        /\ dest_point' = dp
        /\ si' = w.si
        /\ IF w.si <= Len(sts)
           THEN /\ points' = w.points
                /\ pc' = "sc_stops"
                /\ UNCHANGED <<waypoints, leg>>
           ELSE IF dp # NoPoint
           THEN ScBeginLegs(Append(w.points, dp))
           ELSE /\ points' = w.points
                /\ pc' = "sc_dest"
                /\ UNCHANGED <<waypoints, leg>>

\* An assembler that pops the last stop from the request's own list.
ScGeocodeOrigin_PopsIntent ==
    /\ pc = "sc_origin"
    /\ \E c \in world.geo[intent.origin] :
        LET pts == <<Pt(intent.origin, c.lat, c.lng)>>
            n == Len(intent.stops)
        IN  IF Promotes(intent)
            THEN /\ intent' = [intent EXCEPT !.stops = SubSeq(intent.stops, 1, n - 1)]
                 /\ last' = intent.stops[n]
                 /\ IF HasGsr(intent.stops[n])
                    THEN ScToStops(pts, SubSeq(intent.stops, 1, n - 1), 1,
                                   GsrPoint(intent.stops[n]))
                    ELSE /\ points' = pts
                         /\ stops' = SubSeq(intent.stops, 1, n - 1)
                         /\ pc' = "sc_promote"
                         /\ UNCHANGED <<dest_point, si, waypoints, leg>>
            ELSE /\ last' = last
                 /\ intent' = intent
                 /\ ScToStops(pts, intent.stops, 1, NoPoint)
    /\ UNCHANGED <<world, nvVars, reply, error, rtVars, ftVars, fbVars, selVars, extVars>>

\* Lines 34-48: the origin is geocoded; the stops are copied and, without a
\* destination, the last one is popped to become the destination.
ScGeocodeOrigin ==
    /\ pc = "sc_origin"
    /\ \E c \in world.geo[intent.origin] :
        LET pts == <<Pt(intent.origin, c.lat, c.lng)>>
            n == Len(intent.stops)
        IN  IF Promotes(intent)
            THEN IF HasGsr(intent.stops[n])
                 THEN /\ last' = intent.stops[n]
                      /\ ScToStops(pts, SubSeq(intent.stops, 1, n - 1), 1,
                                   GsrPoint(intent.stops[n]))
                 ELSE /\ last' = intent.stops[n]
                      /\ points' = pts
                      /\ stops' = SubSeq(intent.stops, 1, n - 1)
                      /\ pc' = "sc_promote"
                      /\ UNCHANGED <<dest_point, si, waypoints, leg>>
            ELSE /\ last' = last
                 /\ ScToStops(pts, intent.stops, 1, NoPoint)
    /\ UNCHANGED <<intent, world, nvVars, reply, error, rtVars, ftVars, fbVars, selVars, extVars>>

\* Lines 46-48: the popped stop has no enriched result and is geocoded.
ScGeocodePromoted ==
    /\ pc = "sc_promote"
    /\ \E c \in world.geo[StopAddr(last)] :
        ScToStops(points, stops, 1, Pt(last.name, c.lat, c.lng))
    /\ UNCHANGED <<intent, world, nvVars, reply, error, rtVars, ftVars, fbVars, last, selVars, extVars>>

\* Lines 56-58: an intermediate stop without enriched result is geocoded.
ScGeocodeStop ==
    /\ pc = "sc_stops"
    /\ \E c \in world.geo[StopAddr(stops[si])] :
        ScToStops(Append(points, Pt(stops[si].name, c.lat, c.lng)), stops, si + 1,
                  dest_point)
    /\ UNCHANGED <<intent, world, nvVars, reply, error, rtVars, ftVars, fbVars, last, selVars, extVars>>

\* Lines 64-70: the destination string is geocoded.
ScGeocodeDest ==
    /\ pc = "sc_dest"
    /\ \E c \in world.geo[DestStr(intent)] :
        ScBeginLegs(Append(points, Pt(DestStr(intent), c.lat, c.lng)))
    /\ UNCHANGED <<intent, world, nvVars, reply, error, rtVars, ftVars, fbVars, stops, dest_point, last, si, selVars,
                   extVars>>

\* _geocode raises RuntimeError on an empty answer (lines 85-87).
ScGeocodeFails ==
    /\ pc \in {"sc_origin", "sc_promote", "sc_stops", "sc_dest"}
    /\ pc' = "sc_error"
    /\ error' = "Geocode failed"
    /\ UNCHANGED <<intent, world, nvVars, reply, rtVars, ftVars, fbVars, scVars>>

\* Lines 97-106: the routing provider answers with at least one alternative;
\* the first one's first sample is queried next.
ScDirections ==
    /\ pc = "sc_directions"
    /\ \E rs \in RouteLists(world) :
        /\ routes' = rs
        /\ ri' = 1
        /\ pi' = 1
        /\ total' = 0
        /\ scored' = <<>>
        /\ pc' = "sc_poi"
    /\ UNCHANGED <<intent, world, nvVars, reply, error, rtVars, ftVars, fbVars, asmVars, poi, elev, extVars>>

ScDirectionsEmpty_SkipsLeg ==
    /\ pc = "sc_directions"
    /\ 0 \in world.alts
    /\ waypoints' = Append(waypoints, points[leg + 1])
    /\ leg' = IF leg + 1 < Len(points) THEN leg + 1 ELSE leg
    /\ pc' = IF leg + 1 < Len(points) THEN "sc_directions" ELSE "sc_done"
    /\ UNCHANGED <<intent, world, nvVars, reply, error, rtVars, ftVars, fbVars, points, stops,
                   dest_point, last, si, selVars, extVars>>

\* Line 111 on an empty answer: max() of an empty list raises ValueError.
ScDirectionsEmpty ==
    /\ pc = "sc_directions"
    /\ 0 \in world.alts
    /\ pc' = "sc_error"
    /\ error' = "No alternatives"
    /\ UNCHANGED <<intent, world, nvVars, reply, rtVars, ftVars, fbVars, scVars>>

\* Lines 116-119: one places query of the POI-density scorer is answered
\* with n results.
ScPoi ==
    /\ pc = "sc_poi"
    /\ \E n \in world.counts :
        LET t == total + n
        IN  /\ total' = t
            /\ IF pi < Len(Samples(routes[ri]))
               THEN /\ pi' = pi + 1
                    /\ UNCHANGED <<poi, pc>>
               ELSE /\ pi' = pi
                    /\ poi' = PoiDensity(t, Len(routes[ri]))
                    /\ pc' = "sc_elev"
    /\ UNCHANGED <<intent, world, nvVars, reply, error, rtVars, ftVars, fbVars, asmVars, routes, ri, elev, scored, extVars>>

\* len(wpts) >= 5: break, or the samples are exhausted.
ExtractDone_NoCap(accepted, n, idx, nsamples) == idx = nsamples

ExtractDone_OneLate(accepted, n, idx, nsamples) ==
    (accepted /\ n > MaxWaypoints) \/ idx = nsamples

ExtractDone(accepted, n, idx, nsamples) ==
    (accepted /\ n >= MaxWaypoints) \/ idx = nsamples

Accepts_NoDedup(ans, sn) == ans # <<>>

\* Lines 137-142: a sample emits a waypoint when it has results and its top
\* result's place_id is new.
Accepts(ans, sn) == ans # <<>> /\ ans[1].place_id \notin sn

\* A leg end that appends the leg's end point only after scenic waypoints.
ScLegEnd_SkipEmpty(found) ==
    /\ waypoints' = waypoints \o found
                     \o (IF found = <<>> /\ leg + 1 < Len(points) THEN <<>>
                         ELSE <<points[leg + 1]>>)
    /\ IF leg + 1 < Len(points)
       THEN /\ leg' = leg + 1
            /\ pc' = "sc_directions"
            /\ routes' = <<>>
            /\ ri' = 0
            /\ pi' = 0
            /\ total' = 0
            /\ poi' = [num |-> 0, den |-> 1]
            /\ elev' = 0
            /\ scored' = <<>>
       ELSE /\ leg' = leg
            /\ pc' = "sc_done"
            /\ UNCHANGED selVars

\* A leg end after which the next leg is scored on the routes at hand.
ScLegEnd_NoRouting(found) ==
    /\ waypoints' = waypoints \o found \o <<points[leg + 1]>>
    /\ IF leg + 1 < Len(points)
       THEN /\ leg' = leg + 1
            /\ pc' = "sc_poi"
            /\ ri' = 1
            /\ pi' = 1
            /\ total' = 0
            /\ scored' = <<>>
            /\ UNCHANGED <<routes, poi, elev>>
       ELSE /\ leg' = leg
            /\ pc' = "sc_done"
            /\ UNCHANGED selVars

\* Lines 79-80 and the next iteration of line 76, or line 82.
ScLegEnd(found) ==
    /\ waypoints' = waypoints \o found \o <<points[leg + 1]>>
    /\ IF leg + 1 < Len(points)
       THEN /\ leg' = leg + 1
            /\ pc' = "sc_directions"
            /\ routes' = <<>>
            /\ ri' = 0
            /\ pi' = 0
            /\ total' = 0
            /\ poi' = [num |-> 0, den |-> 1]
            /\ elev' = 0
            /\ scored' = <<>>
       ELSE /\ leg' = leg
            /\ pc' = "sc_done"
            /\ UNCHANGED selVars

\* Lines 129-148 for one sample, with the places answer ans (no result, or
\* the top result).
ScExtractStep(cs, idx, sn, found, ans) ==
    LET ok == Accepts(ans, sn)
        found2 == IF ok THEN Append(found, Pt(ans[1].name, ans[1].lat, ans[1].lng))
                  ELSE found
    IN  /\ coords' = cs
        /\ results' = ans
        /\ seen' = IF ok THEN sn \cup {ans[1].place_id} ELSE sn
        /\ wpts' = found2
        /\ IF ExtractDone(ok, Len(found2), idx, Len(Samples(cs)))
           THEN /\ xi' = idx
                /\ ScLegEnd(found2)
           ELSE /\ xi' = idx + 1
                /\ pc' = "sc_extract"
                /\ UNCHANGED <<waypoints, leg, selVars>>

\* Lines 121-125 and 109-111: the elevation answer completes one
\* alternative's score; after the last alternative the best path is
\* selected and the extractor issues its first places query.
ScElev ==
    /\ pc = "sc_elev"
    /\ \E vals \in [1..Min(Len(routes[ri]), 10) -> world.elevs] :
        LET e == Variation(vals)
            sc2 == Append(scored, [score |-> Composite(poi, e), pts |-> routes[ri]])
        IN  /\ elev' = e
            /\ scored' = sc2
            /\ IF ri < Len(routes)
               THEN /\ ri' = ri + 1
                    /\ pi' = 1
                    /\ total' = 0
                    /\ pc' = "sc_poi"
                    /\ UNCHANGED extVars
               ELSE /\ coords' = Best(sc2).pts
                    /\ xi' = 1
                    /\ results' = <<>>
                    /\ seen' = {}
                    /\ wpts' = <<>>
                    /\ pc' = "sc_extract"
                    /\ UNCHANGED <<ri, pi, total>>
    /\ UNCHANGED <<intent, world, nvVars, reply, error, rtVars, ftVars, fbVars, asmVars, routes, poi>>

\* Lines 132-138: a places query of the extractor has no results.
ScExtractEmpty ==
    /\ pc = "sc_extract"
    /\ ScExtractStep(coords, xi, seen, wpts, <<>>)
    /\ UNCHANGED <<intent, world, nvVars, reply, error, rtVars, ftVars, fbVars, points, stops, dest_point, last, si>>

\* Lines 132-147: a places query of the extractor has a top result.
ScExtractTop ==
    /\ pc = "sc_extract"
    /\ \E p \in world.places : ScExtractStep(coords, xi, seen, wpts, <<p>>)
    /\ UNCHANGED <<intent, world, nvVars, reply, error, rtVars, ftVars, fbVars, points, stops, dest_point, last, si>>

ScProviderFails_ReturnsPartial ==
    /\ pc \in {"sc_directions", "sc_poi", "sc_elev", "sc_extract"}
    /\ pc' = "sc_done"
    /\ error' = IF pc = "sc_directions" THEN "Routing failed" ELSE "Provider failed"
    /\ UNCHANGED <<intent, world, nvVars, reply, rtVars, ftVars, fbVars, scVars>>

\* The maps client raises on a routing, places or elevation call.
ScProviderFails ==
    /\ pc \in {"sc_directions", "sc_poi", "sc_elev", "sc_extract"}
    /\ pc' = "sc_error"
    /\ error' = IF pc = "sc_directions" THEN "Routing failed" ELSE "Provider failed"
    /\ UNCHANGED <<intent, world, nvVars, reply, rtVars, ftVars, fbVars, scVars>>

NextLeg ==
    \/ ScDirections
    \/ ScDirectionsEmpty
    \/ ScPoi
    \/ ScElev
    \/ ScExtractEmpty
    \/ ScExtractTop
    \/ ScProviderFails

NextScenic ==
    \/ ScGeocodeOrigin
    \/ ScGeocodePromoted
    \/ ScGeocodeStop
    \/ ScGeocodeDest
    \/ ScGeocodeFails
    \/ NextLeg

NextExtract == ScExtractEmpty \/ ScExtractTop \/ ScProviderFails

SpecScenic == InitScenic /\ [][NextScenic]_vars

SpecLeg == InitLeg /\ [][NextLeg]_vars

SpecExtract == InitExtract /\ [][NextExtract]_vars

(***************************************************************************)
(* Claims about the scenic extractor and selector.                         *)
(***************************************************************************)

\* The waypoint the extractor builds from a places result.
PlaceWaypoint(p) == [name |-> p.name, lat |-> p.lat, lng |-> p.lng]

\* C5: the extractor never holds or returns more than 5 waypoints, whatever
\* the path's length and the places provider's answers.
C5_ExtractAtMostFive == Len(wpts) <= 5

\* C5 witness: the extractor returned 5 waypoints and left samples unqueried.
C5_Witness ==
    /\ pc = "sc_done"
    /\ Len(wpts) = 5
    /\ xi < Len(Samples(coords))

\* A step of the extractor that consumed a places answer (the answer is
\* results').
ExtractorStep == pc = "sc_extract" /\ pc' # "sc_error"

\* C6: within one call of the extractor no place identifier contributes
\* more than one waypoint: a sample whose top result's place_id was already
\* accepted, or that has no results, leaves the waypoints unchanged and the
\* run goes on without error; only a new place_id appends one waypoint.
C6_OneWaypointPerPlaceId ==
    /\ [](\A p \in world.places :
            Cardinality({i \in 1..Len(wpts) : wpts[i] = PlaceWaypoint(p)}) <= 1)
    /\ [][ExtractorStep =>
            IF results' = <<>> \/ results'[1].place_id \in seen
            THEN /\ wpts' = wpts
                 /\ seen' = seen
                 /\ pc' \in {"sc_extract", "sc_done", "sc_directions"}
            ELSE /\ wpts' = Append(wpts, PlaceWaypoint(results'[1]))
                 /\ seen' = seen \cup {results'[1].place_id}]_vars

\* C6 witness: the last answer named a place accepted at an earlier sample,
\* and no waypoint was emitted for it.
C6_Witness ==
    /\ pc \in {"sc_extract", "sc_done"}
    /\ results # <<>>
    /\ results[1].place_id \in seen
    /\ Len(wpts) >= 2
    /\ wpts[Len(wpts)] # PlaceWaypoint(results[1])

\* The selector has returned for the current leg.
Selected == pc \in {"sc_extract", "sc_done"} /\ scored # <<>>

\* a < b on the score fractions.
ScoreLess(a, b) == a.num * b.den < b.num * a.den

\* The score fraction equals the number n.
ScoreIs(a, n) == a.num = n * a.den

\* C7: the selector returns the path of the alternative with the maximum
\* composite score, and among several with the maximum the first one in the
\* provider's order.
C7_SelectFirstMaximum ==
    Selected =>
        \E i \in 1..Len(scored) :
            /\ coords = scored[i].pts
            /\ coords = routes[i]
            /\ \A j \in 1..Len(scored) : ~ScoreLess(scored[i].score, scored[j].score)
            /\ \A j \in 1..(i - 1) : ScoreLess(scored[j].score, scored[i].score)

\* C7 witness: two alternatives tie on a positive score and the first one
\* is the path handed to the extractor.
C7_Witness ==
    /\ Selected
    /\ Len(scored) = 2
    /\ ~ScoreLess(scored[1].score, scored[2].score)
    /\ ~ScoreLess(scored[2].score, scored[1].score)
    /\ scored[1].score.num > 0
    /\ coords = routes[1]

\* The alternative whose sub-scores poi and elev currently hold (0: none).
LastScored ==
    IF pc = "sc_poi" THEN ri - 1
    ELSE IF pc \in {"sc_extract", "sc_done"} THEN Len(scored)
    ELSE 0

\* C8: an alternative's composite score is its POI-density score plus half
\* its elevation-variation score; POI scores [3, 1] with elevation scores
\* [10, 50] give composites [8, 26], the second alternative is selected and
\* the extractor runs over its geometry and no other.
C8_CompositeScore ==
    /\ LastScored >= 1 =>
        LET sc == scored[LastScored].score
        IN  2 * sc.num * poi.den = (2 * poi.num + elev * poi.den) * sc.den
    /\ \A n \in {1, 3} :
        /\ ScoreIs(Composite(PoiDensity(3, n), 10), 8)
        /\ ScoreIs(Composite(PoiDensity(1, n), 50), 26)
    /\ (/\ Selected
        /\ Len(scored) = 2
        /\ ScoreIs(scored[1].score, 8)
        /\ ScoreIs(scored[2].score, 26))
       => /\ coords = routes[2]
          /\ coords # routes[1]

\* C8 witness: the scenario's scores 8 and 26, the second alternative
\* (POI score 1, elevation score 50) selected and its extraction finished.
C8_Witness ==
    /\ pc = "sc_done"
    /\ Len(scored) = 2
    /\ ScoreIs(scored[1].score, 8)
    /\ ScoreIs(scored[2].score, 26)
    /\ poi.num = poi.den
    /\ elev = 50
    /\ coords = routes[2]

(***************************************************************************)
(* Claims about the scenic assembler.                                      *)
(***************************************************************************)

\* a is a subsequence of b.
RECURSIVE IsSubseq(_, _)
IsSubseq(a, b) ==
    IF a = <<>> THEN TRUE
    ELSE IF b = <<>> THEN FALSE
    ELSE IF Head(a) = Head(b) THEN IsSubseq(Tail(a), Tail(b))
    ELSE IsSubseq(a, Tail(b))

\* The point a name geocodes to in the assembler's world.
Geocoded(n, q) == [name |-> n, lat |-> Loc(q), lng |-> Loc(q)]

\* The point a stop resolves to: its first enriched result, else the
\* geocoded address or name.
ResolvedStop(stop) ==
    IF "gsr" \in DOMAIN stop /\ stop.gsr # <<>>
    THEN [name |-> stop.gsr[1].name, lat |-> stop.gsr[1].latitude,
          lng |-> stop.gsr[1].longitude]
    ELSE Geocoded(stop.name, IF "address" \in DOMAIN stop THEN stop.address
                             ELSE stop.name)

\* The last stop stands in for a missing or blank destination.
LastStopIsDestination ==
    intent.destination \in {None, "", " "} /\ intent.stops # <<>>

ResolvedOrigin == Geocoded(intent.origin, intent.origin)

ResolvedDestination ==
    IF LastStopIsDestination THEN ResolvedStop(intent.stops[Len(intent.stops)])
    ELSE IF intent.destination \notin {None, ""}
    THEN Geocoded(intent.destination, intent.destination)
    ELSE IF intent.city # None
    THEN Geocoded("Nearby " \o intent.city, "Nearby " \o intent.city)
    ELSE ResolvedOrigin

\* The stops that stay intermediate, resolved, in stop order.
ResolvedStops ==
    LET n == IF LastStopIsDestination THEN Len(intent.stops) - 1
             ELSE Len(intent.stops)
    IN  [i \in 1..n |-> ResolvedStop(intent.stops[i])]

\* C10: a successful scenic assembly begins with the origin point, ends
\* with the destination point and holds every resolved intermediate stop
\* between them in stop order, also when legs yield no scenic waypoint.
C10_ScenicKeyPointsKept ==
    pc = "sc_done" =>
        /\ Len(waypoints) >= 2
        /\ waypoints[1] = ResolvedOrigin
        /\ waypoints[Len(waypoints)] = ResolvedDestination
        /\ IsSubseq(ResolvedStops, SubSeq(waypoints, 2, Len(waypoints) - 1))

\* C10 witness: two intermediate stops, three legs, and a single scenic
\* waypoint over all of them.
C10_Witness ==
    /\ pc = "sc_done"
    /\ Len(ResolvedStops) = 2
    /\ ResolvedStops[1] # ResolvedStops[2]
    /\ Len(waypoints) = 5

(***************************************************************************)
(* The fitness agent (fitness_agent.py).                                   *)
(*                                                                         *)
(* A constraint string is the sequence of its tokens: a run of digits is   *)
(* [digits |-> n], anything else is [word |-> w], a run of whitespace      *)
(* being the word " ".  Floats are kept exact as integers in tenths.       *)
(***************************************************************************)
MaxConstraints == 2     \* most constraint strings an intent carries
MaxExtras == 2          \* most extra waypoints the planner answers with

\* \s* at position j of c: the position after an optional whitespace run.
SkipSpace(c, j) == IF j <= Len(c) /\ IsWord(c[j], " ") THEN j + 1 ELSE j

\* The literal w at position j of c.
Lit(c, j, w) == j <= Len(c) /\ IsWord(c[j], w)

LeftMost(S) == CHOOSE j \in S : \A k \in S : j <= k

\* re.search(r"(\d+)\s*steps", c): the positions where it matches.
StepsAt(c) == {j \in 1..Len(c) : IsDigits(c[j]) /\ Lit(c, SkipSpace(c, j + 1), "steps")}

\* re.search(r"(\d+(?:\.\d+)?)\s*km", c): with a fraction, or without one.
KmFracAt(c, j) ==
    /\ IsDigits(c[j])
    /\ Lit(c, j + 1, ".")
    /\ j + 2 <= Len(c)
    /\ IsDigits(c[j + 2])
    /\ Lit(c, SkipSpace(c, j + 3), "km")

KmWholeAt(c, j) == IsDigits(c[j]) /\ Lit(c, SkipSpace(c, j + 1), "km")

KmAt(c) == {j \in 1..Len(c) : KmFracAt(c, j) \/ KmWholeAt(c, j)}

\* re.search(r"burn\s*(\d+)\s*calorie", c): the position of the digits.
CalAt(c) ==
    {j \in 2..Len(c) :
        /\ IsDigits(c[j])
        /\ Lit(c, j - 1, "burn") \/ (j > 2 /\ Lit(c, j - 1, " ") /\ Lit(c, j - 2, "burn"))
        /\ Lit(c, SkipSpace(c, j + 1), "calorie")}

\* The number of digits of the run n, written without leading zeros.
NumLen(n) == IF n < 10 THEN 1 ELSE IF n < 100 THEN 2 ELSE IF n < 1000 THEN 3
             ELSE IF n < 10000 THEN 4 ELSE 5

RECURSIVE Pow10(_)
Pow10(k) == IF k = 0 THEN 1 ELSE 10 * Pow10(k - 1)

\* int(N) * 0.8, float(N[.f]) * 1000 and float(N), in tenths; the products
\* are exact for the numbers of the model.
StepsGoal_PerStep(c) == 10 * c[LeftMost(StepsAt(c))].digits

StepsGoal(c) == 8 * c[LeftMost(StepsAt(c))].digits

KmGoal(c) ==
    LET j == LeftMost(KmAt(c))
    IN  IF KmFracAt(c, j)
        THEN 10000 * c[j].digits
               + (10000 * c[j + 2].digits) \div Pow10(NumLen(c[j + 2].digits))
        ELSE 10000 * c[j].digits

CalGoal(c) == 10 * c[LeftMost(CalAt(c))].digits

RECURSIVE ParseGoals_FirstWins(_, _)
ParseGoals_FirstWins(cs, g) ==
    IF cs = <<>> THEN g
    ELSE LET c == Head(cs)
         IN  ParseGoals_FirstWins(Tail(cs),
                 [steps_m |-> IF StepsAt(c) # {} /\ g.steps_m = NoGoal
                              THEN StepsGoal(c) ELSE g.steps_m,
                  target_m |-> IF KmAt(c) # {} /\ g.target_m = NoGoal
                               THEN KmGoal(c) ELSE g.target_m,
                  target_cal |-> IF CalAt(c) # {} /\ g.target_cal = NoGoal
                                 THEN CalGoal(c) ELSE g.target_cal])

\* Lines 60-67: every constraint overwrites the goals it matches.
RECURSIVE ParseGoals(_, _)
ParseGoals(cs, g) ==
    IF cs = <<>> THEN g
    ELSE LET c == Head(cs)
         IN  ParseGoals(Tail(cs),
                 [steps_m |-> IF StepsAt(c) # {} THEN StepsGoal(c) ELSE g.steps_m,
                  target_m |-> IF KmAt(c) # {} THEN KmGoal(c) ELSE g.target_m,
                  target_cal |-> IF CalAt(c) # {} THEN CalGoal(c) ELSE g.target_cal])

Goals(i) == ParseGoals(i.constraints,
                       [steps_m |-> NoGoal, target_m |-> NoGoal, target_cal |-> NoGoal])

\* A goal that is neither None nor 0.0.
Truthy(g) == g # NoGoal /\ g # 0

\* str.lower() on the travel modes of the model.
Lower(m) ==
    CASE m = "Walking" -> "walking"
      [] m = "Bicycling" -> "bicycling"
      [] OTHER -> m

\* MET_VALUES in tenths, and DEFAULT_WEIGHT_KG.
Met(m) == IF m = "bicycling" THEN 60 ELSE 33

DEFAULT_WEIGHT_KG == 70

ModeOf_NoLower(i) == IF i.travel_modes = <<>> THEN "walking" ELSE i.travel_modes[1]

\* Line 55: (intent.travel_modes or ["walking"])[0].lower().
ModeOf(i) == IF i.travel_modes = <<>> THEN "walking" ELSE Lower(i.travel_modes[1])

\* Line 71: intent.destination or origin.
DestOf(i) == IF Falsy(i.destination) THEN i.origin ELSE i.destination

\* Lines 74 and 120: steps_m and origin == dest.
StepsLoop(i) == Truthy(Goals(i).steps_m) /\ i.origin = DestOf(i)

Unmet_DistanceOnly(g, m, r) ==
    \/ Truthy(g.target_m) /\ 10 * r.distance < g.target_m
    \/ Truthy(g.steps_m) /\ 10 * r.distance < g.steps_m

\* Lines 133-137, with calories = (met * 3.5 * weight / 200) * (duration / 60).
Unmet(g, m, r) ==
    \/ Truthy(g.target_m) /\ 10 * r.distance < g.target_m
    \/ Truthy(g.steps_m) /\ 10 * r.distance < g.steps_m
    \/ Truthy(g.target_cal)
         /\ Met(m) * 35 * DEFAULT_WEIGHT_KG * r.duration < 120000 * g.target_cal

\* Lines 124-128: the first enriched result of every stop that has one.
OutStops(sts) == GsrStops(sts)

\* Lines 116-130: the base output.
BaseOut(i, r, p) ==
    <<Pt(i.origin, r.start_location.lat, r.start_location.lng)>>
      \o (IF StepsLoop(i)
          THEN <<Pt(p.name, p.latitude, p.longitude),
                 Pt(i.origin, r.start_location.lat, r.start_location.lng)>>
          ELSE OutStops(i.stops)
                 \o <<Pt(DestOf(i), r.end_location.lat, r.end_location.lng)>>)

\* The constraint strings of the model: "1000 steps", "0 steps", "1.5km",
\* "burn 50 calories" and "flat paths".
FitConstraints ==
    {<<Num(1000), W(" "), W("steps")>>,
     <<Num(0), W(" "), W("steps")>>,
     <<Num(1), W("."), Num(5), W("km")>>,
     <<W("burn"), W(" "), Num(50), W(" "), W("calorie"), W("s")>>,
     <<W("flat"), W(" "), W("paths")>>}

FitModes == {<<>>, <<"Bicycling">>, <<"driving">>}

FitStops == {[name |-> "s"], [name |-> "s", gsr |-> <<Gsr("A", 2, 2)>>]}

FitIntents ==
    {[intent_type |-> "Health", origin |-> "O", destination |-> d, city |-> None,
      travel_modes |-> m, constraints |-> c, stops |-> s] :
        d \in {None, "O", "D"}, m \in FitModes,
        c \in SeqsUpTo(FitConstraints, MaxConstraints),
        s \in SeqsUpTo(FitStops, MaxStops)}

\* What the text search, the routing provider and the planner may answer.
FitPois == {[name |-> "Park", address |-> "p", latitude |-> 3, longitude |-> 3]}

FitRoutes ==
    {[distance |-> d, duration |-> t, start_location |-> [lat |-> 1, lng |-> 1],
      end_location |-> [lat |-> 4, lng |-> 4]] : d \in {500, 5000}, t \in {300, 1800}}

FitExtras == {Pt("X", 5, 5), Pt("O", 1, 1)}

InitFitness ==
    /\ pc = "ft_start"
    /\ intent \in FitIntents
    /\ world = NoWorld
    /\ FbIdle
    /\ NvIdle
    /\ reply = <<>>
    /\ error = None
    /\ RtIdle
    /\ FtIdle
    /\ ScIdle

\* Lines 55-57: a mode without a MET value is refused.
FtUnsupportedMode ==
    /\ pc = "ft_start"
    /\ ModeOf(intent) \notin {"walking", "bicycling"}
    /\ mode' = ModeOf(intent)
    /\ pc' = "ft_error"
    /\ error' = "Unsupported mode"
    /\ UNCHANGED <<intent, world, nvVars, reply, rtVars, fbVars, scVars, steps_m, target_m, target_cal,
                   start, end, fpoi, route, out, extras>>

\* Lines 55-75 and 96: the goals are parsed and the origin is geocoded, in
\* either branch the first provider call.
FtGeocodeOrigin ==
    /\ pc = "ft_start"
    /\ ModeOf(intent) \in {"walking", "bicycling"}
    /\ mode' = ModeOf(intent)
    /\ steps_m' = Goals(intent).steps_m
    /\ target_m' = Goals(intent).target_m
    /\ target_cal' = Goals(intent).target_cal
    /\ start' = [lat |-> Loc(intent.origin), lng |-> Loc(intent.origin)]
    /\ pc' = IF StepsLoop(intent) THEN "ft_search" ELSE "ft_geocode_dest"
    /\ UNCHANGED <<intent, world, nvVars, reply, error, rtVars, fbVars, scVars, end, fpoi, route, out, extras>>

\* Line 97: the destination is geocoded.
FtGeocodeDest ==
    /\ pc = "ft_geocode_dest"
    /\ end' = [lat |-> Loc(DestOf(intent)), lng |-> Loc(DestOf(intent))]
    /\ pc' = "ft_directions"
    /\ UNCHANGED <<intent, world, nvVars, reply, error, rtVars, fbVars, scVars, mode, steps_m, target_m,
                   target_cal, start, fpoi, route, out, extras>>

\* Lines 41-42: the geocoder has no answer.
FtGeocodeFails ==
    /\ \/ pc = "ft_start" /\ ModeOf(intent) \in {"walking", "bicycling"}
       \/ pc = "ft_geocode_dest"
    /\ pc' = "ft_error"
    /\ error' = "Geocode failed"
    /\ UNCHANGED <<intent, world, nvVars, reply, rtVars, fbVars, scVars, ftVars>>

\* Lines 76-81: the text search's top result is the loop's turning point.
FtSearch ==
    /\ pc = "ft_search"
    /\ fpoi' \in FitPois
    /\ pc' = "ft_directions"
    /\ UNCHANGED <<intent, world, nvVars, reply, error, rtVars, fbVars, scVars, mode, steps_m, target_m,
                   target_cal, start, end, route, out, extras>>

\* Line 80: [0] of an empty result list raises IndexError.
FtSearchEmpty ==
    /\ pc = "ft_search"
    /\ pc' = "ft_error"
    /\ error' = "No search result"
    /\ UNCHANGED <<intent, world, nvVars, reply, rtVars, fbVars, scVars, ftVars>>

\* Lines 82-150: the routing provider answers; the base output is built and,
\* if a goal is unmet, the planner is asked next.
FtDirections ==
    /\ pc = "ft_directions"
    /\ \E r \in FitRoutes :
        /\ route' = r
        /\ out' = BaseOut(intent, r, fpoi)
        /\ pc' = IF Unmet([steps_m |-> steps_m, target_m |-> target_m,
                           target_cal |-> target_cal], mode, r)
                 THEN "ft_extras" ELSE "ft_done"
    /\ UNCHANGED <<intent, world, nvVars, reply, error, rtVars, fbVars, scVars, mode, steps_m, target_m,
                   target_cal, start, end, fpoi, extras>>

\* Lines 106-107: no route found.
FtDirectionsEmpty ==
    /\ pc = "ft_directions"
    /\ pc' = "ft_error"
    /\ error' = "No route found"
    /\ UNCHANGED <<intent, world, nvVars, reply, rtVars, fbVars, scVars, ftVars>>

\* What the planning service may answer to optimize_fitness_route.
ExtraTexts ==
    {ArrayText(l) : l \in SeqsUpTo(FitExtras, MaxExtras)}
      \cup {<<W("x")>> \o ArrayText(<<Pt("X", 5, 5)>>) \o <<W("x")>>}
      \cup BadArrayTexts

ExtrasOf_KeepsItems(text) == SelectSeq(text, IsItem)

\* nvidia_agent.py:317-325: the match of \[.*\] is loaded as JSON; without
\* a match, and on invalid JSON, the result is the empty list.
ExtrasOf(text) ==
    IF IsJsonArray(Search(text, "[", "]"))
    THEN SubSeq(Search(text, "[", "]"), 2, Len(Search(text, "[", "]")) - 1)
    ELSE <<>>

\* Lines 144-157: the planner's extras are appended and the list returned.
FtExtras ==
    /\ pc = "ft_extras"
    /\ \E text \in ExtraTexts :
        /\ reply' = text
        /\ extras' = ExtrasOf(text)
        /\ out' = out \o ExtrasOf(text)
    /\ pc' = "ft_done"
    /\ UNCHANGED <<intent, world, nvVars, error, rtVars, fbVars, scVars, mode, steps_m, target_m,
                   target_cal, start, end, fpoi, route>>

\* A provider call raises.
FtProviderFails ==
    /\ pc \in {"ft_search", "ft_directions", "ft_extras"}
    /\ pc' = "ft_error"
    /\ error' = IF pc = "ft_directions" THEN "Routing failed" ELSE "Provider failed"
    /\ UNCHANGED <<intent, world, nvVars, reply, rtVars, fbVars, scVars, ftVars>>

NextFitness ==
    \/ FtUnsupportedMode
    \/ FtGeocodeOrigin
    \/ FtGeocodeDest
    \/ FtGeocodeFails
    \/ FtSearch
    \/ FtSearchEmpty
    \/ FtDirections
    \/ FtDirectionsEmpty
    \/ FtExtras
    \/ FtProviderFails

SpecFitness == InitFitness /\ [][NextFitness]_vars

(***************************************************************************)
(* The three assemblers together: a request runs one of them               *)
(* (starter.py:190-198).                                                   *)
(***************************************************************************)
InitAssemblers == InitScenic \/ InitFitness \/ InitFallback

NextAssemblers == NextScenic \/ NextFitness \/ NextFallback

SpecAssemblers == InitAssemblers /\ [][NextAssemblers]_vars

(***************************************************************************)
(* Claims about the assemblers' outputs.                                   *)
(***************************************************************************)

\* The first and the last name of a returned list.
EndNames(s) == <<s[1].name, s[Len(s)].name>>

\* C9: every list an assembler returns begins with the resolved origin and
\* ends with the resolved destination, or with the origin again for a
\* steps loop; identity is read as the name alone, its weakest reading.
C9_EndpointsAreOriginAndDestination ==
    /\ pc = "sc_done" =>
          EndNames(waypoints) = <<ResolvedOrigin.name, ResolvedDestination.name>>
    /\ pc = "ft_done" =>
          EndNames(out) = <<intent.origin, DestOf(intent)>>
    /\ pc = "fb_done" =>
          EndNames(merged) = <<intent.origin, intent.destination>>

\* The same statement for the runs in which no list was appended or merged:
\* the scenic assembler, and the fitness assembler when no goal is unmet.
EndpointsKeptWhenUnextended ==
    /\ pc = "sc_done" =>
          EndNames(waypoints) = <<ResolvedOrigin.name, ResolvedDestination.name>>
    /\ (pc = "ft_done" /\ extras = <<>>) =>
          EndNames(out) = <<intent.origin, DestOf(intent)>>

\* No two entries of s have the same name:lat:lng key.
NoDupKeys(s) == \A i, j \in 1..Len(s) : i # j => key(s[i]) # key(s[j])

\* C11: a list returned by an assembler never holds two entries with the
\* same (name, lat, lng) identity.
C11_OutputsHaveNoDuplicateIdentity ==
    /\ pc = "sc_done" => NoDupKeys(waypoints)
    /\ pc = "ft_done" => NoDupKeys(out)
    /\ pc = "fb_done" => NoDupKeys(merged)

(***************************************************************************)
(* The constraint parser on its own: the goals of lines 60-67 for single   *)
(* strings over a token vocabulary and for short lists of strings.         *)
(***************************************************************************)
MaxTokens == 4      \* most tokens of one enumerated constraint string
MaxList == 3        \* most constraint strings of one enumerated list

ParseTokens ==
    {Num(5), Num(150), Num(10000)}
      \cup {W(w) : w \in {" ", ".", "steps", "km", "burn", "calorie", "x"}}

\* Two adjacent digit runs are one run, two adjacent whitespace runs one.
WellFormed(c) ==
    \A j \in 1..(Len(c) - 1) :
        /\ ~(IsDigits(c[j]) /\ IsDigits(c[j + 1]))
        /\ ~(IsWord(c[j], " ") /\ IsWord(c[j + 1], " "))

ParseStrings == {c \in SeqsUpTo(ParseTokens, MaxTokens) : WellFormed(c)}

\* "10000 steps", "5.5 km" and "burn 150 calorie".
ExampleStrings ==
    {<<Num(10000), W(" "), W("steps")>>,
     <<Num(5), W("."), Num(5), W(" "), W("km")>>,
     <<W("burn"), W(" "), Num(150), W(" "), W("calorie")>>}

\* "1000 steps", "2000steps", "1.5km", "3 km", "burn 50 calories",
\* "burn70 calorie" and "flat paths".
ListStrings ==
    {<<Num(1000), W(" "), W("steps")>>,
     <<Num(2000), W("steps")>>,
     <<Num(1), W("."), Num(5), W("km")>>,
     <<Num(3), W(" "), W("km")>>,
     <<W("burn"), W(" "), Num(50), W(" "), W("calorie"), W("s")>>,
     <<W("burn"), Num(70), W(" "), W("calorie")>>,
     <<W("flat"), W(" "), W("paths")>>}

ParseIntents ==
    {[intent_type |-> "Health", origin |-> "O", destination |-> None, city |-> None,
      travel_modes |-> <<>>, constraints |-> cs, stops |-> <<>>] :
        cs \in {<<c>> : c \in ParseStrings \cup ExampleStrings}
                  \cup SeqsUpTo(ListStrings, MaxList)}

InitParse ==
    /\ pc = "ft_start"
    /\ intent \in ParseIntents
    /\ world = NoWorld
    /\ FbIdle
    /\ NvIdle
    /\ reply = <<>>
    /\ error = None
    /\ RtIdle
    /\ FtIdle
    /\ ScIdle

NextParse == FtGeocodeOrigin

SpecParse == InitParse /\ [][NextParse]_vars

\* The constraints have been parsed.
Parsed == pc \in {"ft_search", "ft_geocode_dest"}

(***************************************************************************)
(* Claims about the constraint parser.                                     *)
(***************************************************************************)

\* The tokens pat stand at position j of the string c.
Occurs(c, j, pat) ==
    /\ j >= 1
    /\ j + Len(pat) - 1 <= Len(c)
    /\ SubSeq(c, j, j + Len(pat) - 1) = pat

\* The word w, after optional whitespace, stands at position j of c.
Follows(c, j, w) == Occurs(c, j, <<W(w)>>) \/ Occurs(c, j, <<W(" "), W(w)>>)

\* "<N> steps" in c: the values N, by position.
StepsMentions(c) ==
    {<<j, c[j].digits>> : j \in {k \in 1..Len(c) : IsDigits(c[k]) /\ Follows(c, k + 1, "steps")}}

\* "<N>.<F> km" and "<N> km" in c: the metres N[.F] x 1000, by position; the
\* fraction digits of a number are no number of their own.
FracKmPos(c) ==
    {j \in 1..(Len(c) - 2) :
        /\ IsDigits(c[j])
        /\ Occurs(c, j + 1, <<W(".")>>)
        /\ IsDigits(c[j + 2])
        /\ Follows(c, j + 3, "km")}

WholeKmPos(c) ==
    {j \in 1..Len(c) : IsDigits(c[j]) /\ Follows(c, j + 1, "km") /\ (j - 2) \notin FracKmPos(c)}

KmMentions(c) ==
    {<<j, 1000 * c[j].digits
            + (1000 * c[j + 2].digits) \div Pow10(NumLen(c[j + 2].digits))>> :
        j \in FracKmPos(c)}
      \cup {<<j, 1000 * c[j].digits>> : j \in WholeKmPos(c)}

\* "burn <N> calorie" in c: the values N, by position.
CalMentions(c) ==
    {<<j, c[j].digits>> :
        j \in {k \in 1..Len(c) :
                 /\ IsDigits(c[k])
                 /\ Occurs(c, k - 1, <<W("burn")>>) \/ Occurs(c, k - 2, <<W("burn"), W(" ")>>)
                 /\ Follows(c, k + 1, "calorie")}}

\* The goal g, in tenths, is absent if nothing is mentioned and else the
\* value of a mention scaled by tenths; of the only mention if there is one.
GoalFrom(g, mentions, tenths) ==
    IF mentions = {} THEN g = NoGoal
    ELSE \E m \in mentions : g = tenths * m[2]

\* C12: a constraint with "<N> steps" gives a steps goal of N x 0.8 metres,
\* with "<N[.N]> km" a distance goal of N x 1000 metres, with
\* "burn <N> calorie" a calorie goal of N; "10000 steps" gives 8000,
\* "5.5 km" 5500 and "burn 150 calories" 150; when no string matches, all
\* three goals are absent.
C12_ConstraintParserGoals ==
    Parsed =>
        LET cs == intent.constraints
        IN  /\ Len(cs) = 1 =>
                 /\ GoalFrom(steps_m, StepsMentions(cs[1]), 8)
                 /\ GoalFrom(target_m, KmMentions(cs[1]), 10)
                 /\ GoalFrom(target_cal, CalMentions(cs[1]), 10)
            /\ cs = <<<<Num(10000), W(" "), W("steps")>>>> =>
                 <<steps_m, target_m, target_cal>> = <<80000, NoGoal, NoGoal>>
            /\ cs = <<<<Num(5), W("."), Num(5), W(" "), W("km")>>>> =>
                 <<steps_m, target_m, target_cal>> = <<NoGoal, 55000, NoGoal>>
            /\ cs = <<<<W("burn"), W(" "), Num(150), W(" "), W("calorie")>>>> =>
                 <<steps_m, target_m, target_cal>> = <<NoGoal, NoGoal, 1500>>
            /\ (\A k \in 1..Len(cs) :
                    StepsMentions(cs[k]) \cup KmMentions(cs[k]) \cup CalMentions(cs[k]) = {})
                 => <<steps_m, target_m, target_cal>> = <<NoGoal, NoGoal, NoGoal>>

\* C12 witness: "5.5 km" has been parsed to a distance goal of 5500 metres.
C12_Witness ==
    /\ Parsed
    /\ intent.constraints = <<<<Num(5), W("."), Num(5), W(" "), W("km")>>>>
    /\ target_m = 55000

\* The strings of cs that mention a goal of the kind M, by index.
Matching(cs, M(_)) == {k \in 1..Len(cs) : M(cs[k]) # {}}

\* The goal g is absent if no string of cs mentions its kind, and else is
\* the value mentioned by the last string that does.
LastMatchWins(g, cs, M(_), tenths) ==
    IF Matching(cs, M) = {} THEN g = NoGoal
    ELSE LET k == CHOOSE x \in Matching(cs, M) : \A y \in Matching(cs, M) : y <= x
         IN  GoalFrom(g, M(cs[k]), tenths)

\* C13: each goal takes the value of the last string of the list that
\* matches its kind, whatever the strings of other kinds and the strings
\* that match nothing; parsing a list never fails.
C13_LastMatchingConstraintWins ==
    /\ pc = "ft_start" => ENABLED NextParse
    /\ Parsed =>
        /\ LastMatchWins(steps_m, intent.constraints, StepsMentions, 8)
        /\ LastMatchWins(target_m, intent.constraints, KmMentions, 10)
        /\ LastMatchWins(target_cal, intent.constraints, CalMentions, 10)

\* C13 witness: "2000steps", "flat paths", "1000 steps" has been parsed to
\* the steps goal of the last string, neither the largest nor the sum.
C13_Witness ==
    /\ Parsed
    /\ intent.constraints = <<<<Num(2000), W("steps")>>,
                              <<W("flat"), W(" "), W("paths")>>,
                              <<Num(1000), W(" "), W("steps")>>>>
    /\ steps_m = 8000

(***************************************************************************)
(* The request handler (main.py, get_route) and the script's loop          *)
(* (starter.py): parse the prompt, dispatch on the intent type, run the    *)
(* agent, answer.                                                          *)
(***************************************************************************)
MaxRtStops == 1     \* most stops of an intent parsed from a prompt

\* A request whose body is no JSON object: get_json or data.get raises.
NoBody == "<NoBody>"

RtPrompts == {NoBody, None, "", "p"}

\* The stops the planning model may name, before enrichment.
RtStops == {[name |-> "S1"]}

\* What the text search may answer with for a stop (the top result only).
RtSearchAnswers == {<<>>, <<Gsr("G3", 7, 7)>>}

\* What the planning model may extract from a prompt.
RtRaw ==
    {[intent_type |-> t, origin |-> "O", destination |-> d, travel_modes |-> m,
      constraints |-> c, stops |-> s] :
        t \in {"Scenic", "Health", "Other"}, d \in {None, " ", "D", "O"},
        m \in {<<>>, <<"driving">>},
        c \in SeqsUpTo({<<Num(1000), W(" "), W("steps")>>}, 1),
        s \in SeqsUpTo(RtStops, MaxRtStops)}

\* starter.py:135-146: the location hint is always San Francisco, and a
\* missing destination becomes "Nearby <city>".
ParsePrompt(raw) ==
    [intent_type |-> raw.intent_type, origin |-> raw.origin,
     destination |-> IF Falsy(raw.destination) THEN "Nearby SF" ELSE raw.destination,
     city |-> "SF", travel_modes |-> raw.travel_modes,
     constraints |-> raw.constraints, stops |-> raw.stops]

\* main.py:40-53 and starter.py:190-198.
Dispatch_OthersToFallback(en, t) ==
    IF t = "Scenic" THEN "scenic" ELSE IF t = "Health" THEN "fitness" ELSE "fallback"

Dispatch(en, t) ==
    IF t = "Scenic" THEN "scenic"
    ELSE IF t = "Health" THEN "fitness"
    ELSE IF en = "main" THEN "scenic" ELSE "fallback"

\* Where the dispatched agent starts.
EntryPc(a) ==
    CASE a = "scenic" -> "sc_origin"
      [] a = "fitness" -> "ft_start"
      [] a = "fallback" -> "fb_plan"

AgentDone == pc \in {"sc_done", "ft_done", "fb_done"}

AgentFailed == pc \in {"sc_error", "ft_error", "fb_error"}

\* resp.waypoints of the agent that ran.
Returned ==
    CASE pc = "sc_done" -> waypoints
      [] pc = "ft_done" -> out
      [] pc = "fb_done" -> merged

InitRoute ==
    /\ pc = "rt_start"
    /\ entry \in {"main", "starter"}
    /\ prompt \in IF entry = "main" THEN RtPrompts ELSE {"p"}
    /\ agent = None
    /\ response = NoPoint
    /\ enriched = <<>>
    /\ warnings = 0
    /\ intent = NoPoint
    /\ world = AsmWorld
    /\ FbIdle
    /\ NvIdle
    /\ reply = <<>>
    /\ error = None
    /\ FtIdle
    /\ ScIdle

\* main.py:23-31: a body that is no JSON object raises and is answered with
\* 500, a missing or empty prompt with 400.
RtReceive ==
    /\ pc = "rt_start"
    /\ entry = "main"
    /\ IF prompt = NoBody
       THEN /\ error' = "No JSON object"
            /\ response' = [status |-> 500, error |-> "No JSON object"]
            /\ pc' = "rt_done"
       ELSE IF Falsy(prompt)
       THEN /\ error' = error
            /\ response' = [status |-> 400, error |-> "Missing prompt"]
            /\ pc' = "rt_done"
       ELSE /\ error' = error
            /\ response' = response
            /\ pc' = "rt_parse"
    /\ UNCHANGED <<intent, world, nvVars, reply, entry, prompt, agent, enriched, warnings, fbVars, scVars,
                   ftVars>>

\* starter.py:185: the loop takes the next prompt.
StReceive ==
    /\ pc = "rt_start"
    /\ entry = "starter"
    /\ pc' = "rt_parse"
    /\ UNCHANGED <<intent, world, nvVars, reply, error, rtVars, fbVars, scVars, ftVars>>

\* What the planning service may answer to parse_intent: a JSON object, an
\* object inside prose, or no object.
IntentTexts ==
    {<<W("{"), raw, W("}")>> : raw \in RtRaw}
      \cup {<<W("x"), W("{"), raw, W("}"), W("x")>> :
              raw \in {r \in RtRaw : r.stops = <<>> /\ r.constraints = <<>>}}
      \cup {<<>>, <<W("x")>>, <<W("}"), W("{")>>, <<W("{"), W("x"), W("}")>>,
            <<W("{"), W("x")>>}

\* nvidia_agent.py:232-238: the match of \{.*\} is loaded as JSON; without
\* a match ValueError is raised, and json.loads raises on invalid JSON.
ParseIntentError(text) ==
    IF Search(text, "{", "}") = <<>> THEN "Could not find a valid JSON object"
    ELSE IF ~IsJsonObject(Search(text, "{", "}")) THEN "Invalid JSON"
    ELSE None

ParseIntentValue(text) == Search(text, "{", "}")[2]

\* main.py:40-53 and starter.py:190-198: the agent of the intent's type is
\* called.
RtDispatch(i) ==
    /\ agent' = Dispatch(entry, i.intent_type)
    /\ pc' = EntryPc(Dispatch(entry, i.intent_type))

\* main.py:37 and starter.py:132-154: the prompt is parsed to an intent; an
\* intent with stops is enriched first, any other is dispatched.
RtParsePrompt ==
    /\ pc = "rt_parse"
    /\ \E text \in IntentTexts :
        /\ ParseIntentError(text) = None
        /\ reply' = text
        /\ intent' = ParsePrompt(ParseIntentValue(text))
        /\ IF ParseIntentValue(text).stops # <<>>
           THEN /\ pc' = "rt_enrich"
                /\ agent' = agent
           ELSE RtDispatch(ParseIntentValue(text))
    /\ UNCHANGED <<world, nvVars, error, entry, prompt, response, enriched, warnings, fbVars, scVars,
                   ftVars>>

\* starter.py:106-125: after the last stop the intent is rebuilt with the
\* enriched stops and parse_prompt returns.
RtEnriched(new) ==
    /\ enriched' = new
    /\ IF Len(new) = Len(intent.stops)
       THEN /\ intent' = [intent EXCEPT !.stops = new]
            /\ RtDispatch(intent)
       ELSE UNCHANGED <<intent, agent, pc>>

\* starter.py:83-99: the next stop is searched for and gets the results.
RtEnrichStop ==
    /\ pc = "rt_enrich"
    /\ \E r \in RtSearchAnswers :
        RtEnriched(Append(enriched, [gsr |-> r] @@ intent.stops[Len(enriched) + 1]))
    /\ UNCHANGED <<world, nvVars, reply, error, entry, prompt, response, warnings, fbVars, scVars,
                   ftVars>>

\* starter.py:101-104: the search raises; the stop gets no results, a
\* warning is printed and the loop goes on.
RtEnrichStopFails ==
    /\ pc = "rt_enrich"
    /\ RtEnriched(Append(enriched, [gsr |-> <<>>] @@ intent.stops[Len(enriched) + 1]))
    /\ warnings' = warnings + 1
    /\ UNCHANGED <<world, nvVars, reply, error, entry, prompt, response, fbVars, scVars, ftVars>>

\* nvidia_agent.py:232-238: the answer holds no JSON object.
RtParseNoJson ==
    /\ pc = "rt_parse"
    /\ \E text \in IntentTexts :
        /\ ParseIntentError(text) # None
        /\ reply' = text
        /\ error' = ParseIntentError(text)
    /\ pc' = "rt_error"
    /\ UNCHANGED <<intent, world, nvVars, rtVars, fbVars, scVars, ftVars>>

\* parse_prompt raises: the service fails, its answer holds no JSON object,
\* or the object is no valid RouteIntent.
RtParseFails ==
    /\ pc = "rt_parse"
    /\ pc' = "rt_error"
    /\ error' = "Parsing failed"
    /\ UNCHANGED <<intent, world, nvVars, reply, rtVars, fbVars, scVars, ftVars>>

\* main.py:55-62: the agent returned; the response carries the intent and
\* the agent's result.
RtRespond ==
    /\ AgentDone
    /\ entry = "main"
    /\ response' = [status |-> 200, intent |-> intent, waypoints |-> Returned]
    /\ pc' = "rt_done"
    /\ UNCHANGED <<intent, world, nvVars, reply, error, entry, prompt, agent, enriched, warnings, fbVars,
                   scVars, ftVars>>

RtFail_PartialList ==
    /\ AgentFailed \/ pc = "rt_error"
    /\ entry = "main"
    /\ response' = [status |-> 500, error |-> error, waypoints |-> waypoints]
    /\ pc' = "rt_done"
    /\ UNCHANGED <<intent, world, nvVars, reply, error, entry, prompt, agent, enriched, warnings, fbVars,
                   scVars, ftVars>>

\* main.py:64-67: any exception is answered with 500 and its message.
RtFail ==
    /\ AgentFailed \/ pc = "rt_error"
    /\ entry = "main"
    /\ response' = [status |-> 500, error |-> error]
    /\ pc' = "rt_done"
    /\ UNCHANGED <<intent, world, nvVars, reply, error, entry, prompt, agent, enriched, warnings, fbVars,
                   scVars, ftVars>>

\* starter.py:200-206: the script prints the result or the error and goes
\* on to the next prompt.
StPrint ==
    /\ AgentDone \/ AgentFailed \/ pc = "rt_error"
    /\ entry = "starter"
    /\ pc' = "st_done"
    /\ UNCHANGED <<intent, world, nvVars, reply, error, rtVars, fbVars, scVars, ftVars>>

NextRoute ==
    \/ RtReceive
    \/ StReceive
    \/ RtParsePrompt
    \/ RtParseNoJson
    \/ RtParseFails
    \/ RtEnrichStop
    \/ RtEnrichStopFails
    \/ RtRespond
    \/ RtFail
    \/ StPrint
    \/ NextScenic
    \/ NextFitness
    \/ NextFallback

SpecRoute == InitRoute /\ [][NextRoute]_vars

(***************************************************************************)
(* Claims about the request handler.                                       *)
(***************************************************************************)

\* The list the dispatched agent has built so far.
AgentOutput ==
    CASE agent = "scenic" -> waypoints
      [] agent = "fitness" -> out
      [] agent = "fallback" -> merged
      [] OTHER -> <<>>

\* The agent ran to its end: the scenic legs are all done, the fitness base
\* route is built.
AgentComplete ==
    CASE agent = "scenic" ->
            /\ Len(points) >= 2
            /\ leg = Len(points) - 1
            /\ AgentOutput[1] = points[1]
            /\ AgentOutput[Len(AgentOutput)] = points[Len(points)]
      [] agent = "fitness" ->
            /\ route # NoPoint
            /\ SubSeq(out, 1, Len(out) - Len(extras)) = BaseOut(intent, route, fpoi)
      [] OTHER -> FALSE

SuccessResponse ==
    /\ DOMAIN response = {"status", "intent", "waypoints"}
    /\ response.status = 200
    /\ response.intent = intent
    /\ response.waypoints = AgentOutput
    /\ AgentComplete

ErrorResponse ==
    /\ DOMAIN response = {"status", "error"}
    /\ response.status \in {400, 500}
    /\ response.status = 400 <=> (prompt # NoBody /\ Falsy(prompt))

\* C14: a request to the route operation ends with a success response
\* carrying the intent and the agent's complete waypoint list, or with an
\* error payload of status 400 (missing prompt) or 500 (any failure), which
\* carries no waypoint list; the response is sent once, and the handler is
\* never stuck before it.
C14_RouteOutcomes ==
    /\ [](entry = "main" =>
            /\ pc = "rt_done" => (SuccessResponse \/ ErrorResponse)
            /\ pc # "rt_done" => (response = NoPoint /\ ENABLED NextRoute))
    /\ [][response # NoPoint => response' = response]_vars

\* C14 witness: a scenic assembly failed after a leg had already added
\* waypoints, and the request was answered with 500.
C14_Witness ==
    /\ entry = "main"
    /\ pc = "rt_done"
    /\ response.status = 500
    /\ Len(waypoints) >= 2

(***************************************************************************)
(* Claims about failures.                                                  *)
(***************************************************************************)

\* The key points the scenic assembler has to resolve: the origin, the
\* intermediate stops and the destination.
KeyPointCount == 2 + Len(ResolvedStops)

\* C15: in the scenic assembler a failed geocoding of any key point and a
\* failed routing of any leg end the assembly with the error: a list is
\* returned only if every key point was resolved and every leg was routed
\* without an error, however many legs were done before the failure.
C15_ScenicFailureIsFatal ==
    /\ [](/\ error # None => pc = "sc_error"
          /\ pc = "sc_done" => (Len(points) = KeyPointCount /\ leg = Len(points) - 1))
    /\ [][pc = "sc_error" => (pc' = "sc_error" /\ error' = error)]_vars

\* C15 witness: the routing of a later leg failed after an earlier leg had
\* been processed.
C15_Witness ==
    /\ pc = "sc_error"
    /\ error = "Routing failed"
    /\ leg >= 2
    /\ Len(waypoints) >= 2

\* C16: when the routing provider answers a leg with zero alternatives,
\* the selector raises: nothing is scored or selected, the extractor does
\* not run for the leg, the output gains nothing and no list is returned.
C16_NoAlternativesIsFatal ==
    /\ [](error = "No alternatives" => (pc = "sc_error" /\ routes = <<>> /\ scored = <<>>))
    /\ [][(pc = "sc_directions" /\ routes' = <<>>) =>
            /\ pc' = "sc_error"
            /\ error' # None
            /\ UNCHANGED <<extVars, selVars, waypoints, leg>>]_vars
    /\ [][error = "No alternatives" => pc' # "sc_done"]_vars

\* C16 witness: the second leg got zero alternatives after the first leg
\* had been assembled.
C16_Witness ==
    /\ pc = "sc_error"
    /\ error = "No alternatives"
    /\ leg = 2
    /\ Len(waypoints) >= 2

\* The first travel mode of the intent is, whatever its case, neither
\* walking nor bicycling.
UnsupportedFirstMode ==
    /\ intent.travel_modes # <<>>
    /\ intent.travel_modes[1] \notin {"walking", "Walking", "bicycling", "Bicycling"}

\* No provider call of the fitness agent has been answered.
NoFitnessCallMade ==
    /\ start = NoPoint
    /\ end = NoPoint
    /\ fpoi = NoPoint
    /\ route = NoPoint
    /\ out = <<>>
    /\ extras = <<>>

\* C17: a fitness request whose first travel mode is, compared without
\* case, neither walking nor bicycling is refused with the validation
\* error before any provider call; no other request is refused with it.
C17_UnsupportedModeRejected ==
    /\ UnsupportedFirstMode =>
          /\ pc \in {"ft_start", "ft_error"}
          /\ pc = "ft_error" => error = "Unsupported mode"
          /\ NoFitnessCallMade
    /\ error = "Unsupported mode" => UnsupportedFirstMode

\* C17 witness: a driving request has been refused.
C17_Witness ==
    /\ pc = "ft_error"
    /\ error = "Unsupported mode"
    /\ intent.travel_modes = <<"driving">>
    /\ intent.constraints # <<>>

\* The text holds a JSON structure: an opening and a later closing token
\* with nothing but values between them.
Parseable(text, open, close) ==
    \E i, j \in 1..Len(text) :
        /\ i < j
        /\ IsWord(text[i], open)
        /\ IsWord(text[j], close)
        /\ \A k \in (i + 1)..(j - 1) : IsItem(text[k])

\* C18: an answer of the planning service without a parseable JSON
\* structure is fatal to intent parsing (no agent is called) and to route
\* planning (no list is merged), while in the fitness agent's request for
\* extras it gives no extras: the base route is returned unchanged.
C18_UnparseableAnswer ==
    /\ [][(pc = "rt_parse" /\ ~Parseable(reply', "{", "}")) =>
            (pc' = "rt_error" /\ error' # None /\ agent' = None)]_vars
    /\ [][(pc = "fb_plan" /\ ~Parseable(reply', "[", "]")) =>
            (pc' = "fb_error" /\ error' # None /\ merged' = <<>>)]_vars
    /\ [][(pc = "ft_extras" /\ error' = None /\ ~Parseable(reply', "[", "]")) =>
            /\ pc' = "ft_done"
            /\ extras' = <<>>
            /\ out' = out
            /\ out' = BaseOut(intent, route, fpoi)]_vars
    /\ [](error \in {"Could not find a valid JSON object", "Invalid JSON", "No JSON array found"}
            => pc \in {"rt_error", "fb_error", "rt_done", "st_done"})

\* C18 witness: the fitness agent has returned its base route after the
\* planner answered with prose between the brackets.
C18_Witness ==
    /\ pc = "ft_done"
    /\ reply = <<W("["), Pt("A", 1, 1), W("x"), W("]")>>
    /\ extras = <<>>
    /\ Len(out) >= 2


\* The agent the claimed dispatch names for an intent type.
ClaimedAgent(t) ==
    CASE t = "Scenic" -> "scenic"
      [] t = "Health" -> "fitness"
      [] OTHER -> "fallback"

\* Only the dispatched agent has worked: the others' lists are untouched.
OnlyAgentWorked ==
    /\ agent = "scenic" => (merged = <<>> /\ out = <<>> /\ pc \notin {"fb_plan", "ft_start"})
    /\ agent = "fitness" => (merged = <<>> /\ waypoints = <<>> /\ pc \notin {"fb_plan", "sc_origin"})
    /\ agent = "fallback" => (out = <<>> /\ waypoints = <<>> /\ pc \notin {"sc_origin", "ft_start"})

HasShape(wp) == {"name", "lat", "lng"} \subseteq DOMAIN wp

AllShaped(s) == \A i \in 1..Len(s) : HasShape(s[i])

\* C20: every entry of every assembler's output has a name, a latitude and
\* a longitude; the fallback agent's output holds no entry without
\* coordinates, also when the planner proposes nothing and no stop is
\* enriched.
C20_EntriesHaveNameAndCoordinates ==
    /\ pc = "sc_done" => AllShaped(waypoints)
    /\ pc = "ft_done" => AllShaped(out)
    /\ pc = "fb_done" => AllShaped(merged)


(***************************************************************************)
(* The planning client (nvidia_agent.py): the import of starter.py, the    *)
(* construction of NVIDIAAgent, and _make_request with its canned answers. *)
(***************************************************************************)
MaxCalls == 2       \* most calls of one client

\* The words of a user message, lower case as user_message.lower() has them
\* except for the one phrase the code looks for in its own case.
NvUsers ==
    {<<"scenic", "from", "oakland", "to", "sf">>, <<"steps", "in", "toronto">>,
     <<"burn", "calories">>, <<"dinner", "to", "sf">>, <<"bike", "commute">>,
     <<"eco", "bus">>, <<"hello">>}

\* The messages of parse_intent, plan_route, optimize_fitness_route and
\* chat, by the method whose system prompt they carry; and no messages.
NvMessages ==
    {[system |-> "parse_intent", user |-> u] : u \in NvUsers}
      \cup {[system |-> "plan_route", user |-> <<t, "Generate waypoints">>] :
              t \in {"scenic", "health", "event", "commute", "other"}}
      \cup {[system |-> "optimize", user |-> <<"fitness", "constraints">>]}
      \cup {[system |-> "chat", user |-> u] :
              u \in {<<"hello">>, <<"fitness">>, <<"Generate waypoints">>}}
      \cup {[system |-> "", user |-> <<>>]}

\* any(word in user_message.lower() for word in words)
AnyIn(u, words) == Range(u) \cap words # {}

\* str.title() on the place names of the model.
Title(w) ==
    CASE w = "oakland" -> "Oakland"
      [] w = "sf" -> "Sf"
      [] w = "toronto" -> "Toronto"
      [] OTHER -> w

\* u.split(w)[1]: the words between the first and the second w.
RECURSIVE UpTo(_, _)
UpTo(u, w) ==
    IF u = <<>> \/ Head(u) = w THEN <<>> ELSE <<Head(u)>> \o UpTo(Tail(u), w)

RECURSIVE After(_, _)
After(u, w) ==
    IF u = <<>> THEN <<>>
    ELSE IF Head(u) = w THEN UpTo(Tail(u), w)
    ELSE After(Tail(u), w)

TitleAll(u) == [i \in 1..Len(u) |-> Title(u[i])]

\* Lines 81-103: the intent type by the first keyword list that matches.
MockIntentType(u) ==
    IF AnyIn(u, {"scenic", "beautiful", "nature", "park", "view"}) THEN "Scenic"
    ELSE IF AnyIn(u, {"fitness", "walk", "exercise", "step", "steps", "calories",
                      "health", "stroll", "jog", "run"}) THEN "Health"
    ELSE IF AnyIn(u, {"date", "dinner", "night", "restaurant", "romantic"}) THEN "Event"
    ELSE IF AnyIn(u, {"commute", "work", "fast", "quick", "shortest"}) THEN "Commute"
    ELSE IF AnyIn(u, {"eco", "green", "environment", "electric"}) THEN "Eco-conscious"
    ELSE "Other"

MockConstraints(u) ==
    CASE MockIntentType(u) = "Scenic" -> <<<<W("scenic route")>>>>
      [] MockIntentType(u) = "Health" ->
            (IF AnyIn(u, {"step", "steps"})
             THEN <<<<Num(10000), W(" "), W("steps")>>>> ELSE <<>>)
            \o (IF AnyIn(u, {"calories"})
                THEN <<<<W("burn"), W(" "), W("calories")>>>> ELSE <<>>)
      [] MockIntentType(u) = "Event" -> <<<<W("date night")>>>>
      [] MockIntentType(u) = "Commute" -> <<<<W("fastest route")>>>>
      [] MockIntentType(u) = "Eco-conscious" -> <<<<W("eco-friendly")>>>>
      [] OTHER -> <<>>

\* Lines 105-122: the origin after "from" (up to "to") or the first word
\* after "in"; "UC Berkeley" otherwise.
MockOrigin(u) ==
    IF AnyIn(u, {"from"}) THEN TitleAll(UpTo(After(u, "from"), "to"))
    ELSE IF AnyIn(u, {"in"}) /\ After(u, "in") # <<>> THEN <<Title(After(u, "in")[1])>>
    ELSE <<"UC Berkeley">>

\* Lines 124-127: the words after "to", or the empty string.
MockDestination(u) == IF AnyIn(u, {"to"}) THEN TitleAll(After(u, "to")) ELSE <<>>

\* Lines 129-137.
MockTravelModes(u) ==
    IF AnyIn(u, {"walk", "walking", "stroll", "step", "steps", "jog", "jogging"})
    THEN <<"walking">>
    ELSE IF AnyIn(u, {"bike", "cycling", "bicycle"}) THEN <<"bicycling">>
    ELSE IF AnyIn(u, {"transit", "bus", "train"}) THEN <<"transit">>
    ELSE IF MockIntentType(u) = "Health" THEN <<"walking">>
    ELSE <<"driving">>

\* Lines 139-147: the JSON object of the canned intent.
MockIntent(u) ==
    <<W("{"),
      [intent_type |-> MockIntentType(u), origin |-> MockOrigin(u),
       destination |-> MockDestination(u), travel_modes |-> MockTravelModes(u),
       constraints |-> MockConstraints(u), avoid |-> <<>>, optimize_waypoints |-> TRUE],
      W("}")>>

\* Lines 150-187: the canned waypoint lists; coordinates in units of 1e-7
\* degrees.
MockPlan(u) ==
    IF AnyIn(u, {"scenic", "beautiful", "nature", "park"})
    THEN ArrayText(<<Pt("Starting Point", 378712141, -1222554630),
                     Pt("Tilden Regional Park", 378840000, -1222500000),
                     Pt("Berkeley Hills Scenic Overlook", 378900000, -1222400000),
                     Pt("Destination", 376955029, -1220738678)>>)
    ELSE IF AnyIn(u, {"fitness", "health", "walk", "exercise", "step", "steps",
                      "stroll", "jog", "run"})
    THEN ArrayText(<<Pt("Starting Point", 378712141, -1222554630),
                     Pt("Berkeley Marina", 378600000, -1223200000),
                     Pt("Cesar Chavez Park", 378650000, -1223150000),
                     Pt("Fitness Loop Return", 378712141, -1222554630)>>)
    ELSE IF AnyIn(u, {"date", "dinner", "romantic", "night"})
    THEN ArrayText(<<Pt("Starting Point", 378712141, -1222554630),
                     Pt("Romantic Restaurant", 378720000, -1222682000),
                     Pt("Sunset Viewpoint", 378811000, -1222968000),
                     Pt("Evening Destination", 378750000, -1222590000)>>)
    ELSE IF AnyIn(u, {"commute", "work", "fast", "quick"})
    THEN ArrayText(<<Pt("Starting Point", 378712141, -1222554630),
                     Pt("Highway Entrance", 378500000, -1222300000),
                     Pt("Express Route", 378000000, -1222000000),
                     Pt("Work Destination", 377500000, -1221500000)>>)
    ELSE ArrayText(<<Pt("Starting Point", 378712141, -1222554630),
                     Pt("Intermediate Stop", 378000000, -1222000000),
                     Pt("Final Destination", 377500000, -1221500000)>>)

\* Lines 190-194.
MockFitness ==
    ArrayText(<<Pt("Berkeley Marina Fitness Loop", 378600000, -1223200000),
                Pt("Cesar Chavez Park Track", 378650000, -1223150000)>>)

\* Lines 197-198.
MockChat == <<W("I'm an NVIDIA AI assistant.")>>

\* _get_mock_response (lines 73-197): the answer by the system prompt and
\* the words of the user message.
GetMockResponse(m) ==
    IF m.system = "parse_intent" THEN MockIntent(m.user)
    ELSE IF m.system = "plan_route" \/ AnyIn(m.user, {"Generate waypoints"})
    THEN MockPlan(m.user)
    ELSE IF m.system = "optimize" \/ AnyIn(m.user, {"fitness"}) THEN MockFitness
    ELSE MockChat


\* What the HTTP service may answer with: status codes, and the content of
\* a 200 answer after strip().
NvStatuses == {200, 429, 500}

NvContents == {<<>>, <<W("x")>>, ArrayText(<<Pt("A", 1, 1)>>)}

\* Which program runs: the HTTP service, the script, or the client module on
\* its own (nvidia_agent.py:344-345 and any other caller of the class).
InitClient ==
    /\ pc = "nv_boot"
    /\ entry \in {"main", "starter", "nvidia_agent"}
    /\ env_key \in {None, "k"}
    /\ api_key = None
    /\ mock_mode = TRUE
    /\ messages = NoPoint
    /\ posts = <<>>
    /\ calls = <<>>
    /\ prompt = None
    /\ agent = None
    /\ response = NoPoint
    /\ enriched = <<>>
    /\ warnings = 0
    /\ intent = NoPoint
    /\ world = NoWorld
    /\ reply = <<>>
    /\ error = None
    /\ FbIdle
    /\ FtIdle
    /\ ScIdle

\* main.py:5 and starter.py:19-22: importing starter raises ValueError when
\* NVIDIA_API_KEY is not set; the client module itself has no such check.
StImport ==
    /\ pc = "nv_boot"
    /\ IF entry \in {"main", "starter"} /\ Falsy(env_key)
       THEN /\ pc' = "nv_down"
            /\ error' = "NVIDIA_API_KEY environment variable is required"
       ELSE /\ pc' = "nv_init"
            /\ error' = error
    /\ UNCHANGED <<intent, world, reply, nvVars, rtVars, fbVars, scVars, ftVars>>

\* The arguments of the constructor: starter.py:48 passes NVIDIA_API_KEY and
\* leaves mock_mode at its default True; other callers choose both.
NvArgs ==
    IF entry \in {"main", "starter"}
    THEN {<<env_key, TRUE>>}
    ELSE {None, "k"} \X BOOLEAN

\* NVIDIAAgent.__init__ (lines 24-29).
NvConstruct ==
    /\ pc = "nv_init"
    /\ \E a \in NvArgs :
        LET given == IF Falsy(a[1]) THEN env_key ELSE a[1]
        IN  /\ api_key' = given
            /\ IF Falsy(given) /\ ~a[2]
               THEN /\ pc' = "nv_error"
                    /\ error' = "NVIDIA_API_KEY is required when not in mock mode"
                    /\ mock_mode' = mock_mode
               ELSE /\ pc' = "nv_ready"
                    /\ error' = error
                    /\ mock_mode' = a[2]
    /\ UNCHANGED <<intent, world, reply, env_key, messages, posts, calls, rtVars, fbVars,
                   scVars, ftVars>>

\* The call has returned text: it is recorded with its messages.
NvReturn(m, text) ==
    /\ reply' = text
    /\ calls' = Append(calls, [messages |-> m, reply |-> text])
    /\ pc' = "nv_ready"
    /\ error' = error

\* _make_request, lines 36-37: in mock mode the canned answer is returned.
NvMock ==
    /\ pc = "nv_ready"
    /\ mock_mode
    /\ Len(calls) < MaxCalls
    /\ \E m \in NvMessages :
        /\ messages' = m
        /\ NvReturn(m, GetMockResponse(m))
    /\ posts' = <<>>
    /\ UNCHANGED <<intent, world, env_key, api_key, mock_mode, rtVars, fbVars, scVars, ftVars>>

\* Lines 39-58 and 70-71: the request is posted with the model parameter; a
\* 200 answer is returned, any other status leads to the second attempt.
NvPost ==
    /\ pc = "nv_ready"
    /\ ~mock_mode
    /\ Len(calls) < MaxCalls
    /\ \E m \in NvMessages, st \in NvStatuses :
        /\ messages' = m
        /\ posts' = <<[model |-> TRUE, status |-> st]>>
        /\ \/ /\ st = 200
              /\ \E c \in NvContents : NvReturn(m, c)
           \/ /\ st # 200
              /\ pc' = "nv_retry"
              /\ UNCHANGED <<reply, calls, error>>
    /\ UNCHANGED <<intent, world, env_key, api_key, mock_mode, rtVars, fbVars, scVars, ftVars>>

\* Lines 60-68: the request is posted again without the model parameter; a
\* 200 answer is returned, any other status raises RuntimeError.
NvPostAlt ==
    /\ pc = "nv_retry"
    /\ \E st \in NvStatuses :
        /\ posts' = Append(posts, [model |-> FALSE, status |-> st])
        /\ \/ /\ st = 200
              /\ \E c \in NvContents : NvReturn(messages, c)
           \/ /\ st # 200
              /\ pc' = "nv_error"
              /\ error' = "NVIDIA API error"
              /\ UNCHANGED <<reply, calls>>
    /\ UNCHANGED <<intent, world, env_key, api_key, mock_mode, messages, rtVars, fbVars,
                   scVars, ftVars>>

\* requests.post raises (no connection): the exception leaves _make_request.
NvPostRaises ==
    /\ \/ pc = "nv_ready" /\ ~mock_mode /\ Len(calls) < MaxCalls
       \/ pc = "nv_retry"
    /\ pc' = "nv_error"
    /\ error' = "Connection failed"
    /\ UNCHANGED <<intent, world, reply, nvVars, rtVars, fbVars, scVars, ftVars>>

NextClient ==
    \/ StImport
    \/ NvConstruct
    \/ NvMock
    \/ NvPost
    \/ NvPostAlt
    \/ NvPostRaises

SpecClient == InitClient /\ [][NextClient]_vars

\* C21: no provider request is re-issued after a failure: a call of the
\* planning client posts at most once, a post that was not answered with
\* 200 fails the call, and a failed text search fails the request before
\* any agent is called.
C21_NoRequestReissued ==
    /\ Len(posts) <= 1
    /\ \A i \in 1..Len(posts) : posts[i].status # 200 => pc = "nv_error"
    /\ warnings > 0 => (agent = None /\ pc \in {"rt_error", "rt_done", "st_done"})

\* The request goes on after a failed text search and can be answered.
AnsweredAfterFailedSearch ==
    /\ pc = "rt_done"
    /\ warnings > 0
    /\ response.status = 200

\* The second attempt can even make the call succeed.
RetryCanSucceed ==
    /\ pc = "nv_ready"
    /\ Len(posts) = 2
    /\ posts[1].status # 200
    /\ posts[2].status = 200
    /\ calls # <<>>

\* Without a key and outside mock mode the constructor refuses.
NoKeyNoMockRefused ==
    (pc \in {"nv_ready", "nv_retry"} /\ ~mock_mode) => ~Falsy(api_key)

\* C22: without a configured credential the system does not hard-fail: the
\* service starts and the client answers its requests from canned
\* responses, the same messages always with the same response.
C22_NoCredentialDegradesToCanned ==
    Falsy(env_key) /\ entry \in {"main", "starter"} =>
        /\ pc \notin {"nv_down", "nv_error"}
        /\ error = None
        /\ \A i \in 1..Len(calls) : calls[i].reply = GetMockResponse(calls[i].messages)
        /\ \A i, j \in 1..Len(calls) :
              calls[i].messages = calls[j].messages => calls[i].reply = calls[j].reply

\* The client on its own does degrade: without any key it is built in mock
\* mode and answers every call with the canned response of its messages.
ClientAloneDegrades ==
    (entry = "nvidia_agent" /\ Falsy(api_key) /\ pc = "nv_ready") =>
        /\ mock_mode
        /\ \A i, j \in 1..Len(calls) :
              calls[i].messages = calls[j].messages => calls[i].reply = calls[j].reply


(***************************************************************************)
(* One leg over long paths: the sampling of the scorer and the extractor.  *)
(***************************************************************************)
MaxSamplePath == 21     \* longest decoded path of the sampling runs

\* The providers of a sampling run: one alternative or none, paths of up to
\* MaxSamplePath points, no POI results, two places.
SampleWorld == [geo |-> ScGeo, alts |-> {0, 1}, lens |-> 1..MaxSamplePath, counts |-> {0},
                elevs |-> {0}, places |-> {Place(1), Place(2)}]

\* The run of a request O -> D without stops, at the routing query of its
\* only leg.
InitSample ==
    /\ pc = "sc_directions"
    /\ intent = [intent_type |-> "Scenic", origin |-> "O", destination |-> "D",
                 city |-> None, stops |-> <<>>]
    /\ world = SampleWorld
    /\ FbIdle
    /\ NvIdle
    /\ reply = <<>>
    /\ error = None
    /\ RtIdle
    /\ FtIdle
    /\ points = <<Pt("O", 1, 1), Pt("D", 4, 4)>>
    /\ stops = <<>>
    /\ dest_point = NoPoint
    /\ last = NoPoint
    /\ si = 1
    /\ waypoints = <<Pt("O", 1, 1)>>
    /\ leg = 1
    /\ SelIdle
    /\ ExtIdle

SpecSample == InitSample /\ [][NextLeg]_vars

\* The index in the path of the k-th coordinate visited with stride
\* max(1, floor(n / 10)).
Visited(n, k) == (k - 1) * (IF n \div 10 >= 1 THEN n \div 10 ELSE 1) + 1

\* C23: the scorer and the extractor visit the path with stride
\* max(1, floor(n / 10)) and never visit more than 10 coordinates; fewer
\* than 10 only on a path of fewer than 10 points.
C23_AtMostTenSamples ==
    /\ pc = "sc_poi" =>
          /\ Visited(Len(routes[ri]), pi) <= Len(routes[ri])
          /\ Samples(routes[ri])[pi] = routes[ri][Visited(Len(routes[ri]), pi)]
          /\ pi <= 10
    /\ pc = "sc_extract" =>
          /\ Visited(Len(coords), xi) <= Len(coords)
          /\ Samples(coords)[xi] = coords[Visited(Len(coords), xi)]
          /\ xi <= 10
    /\ pc = "sc_elev" => pi = (IF Len(routes[ri]) < 10 THEN Len(routes[ri]) ELSE 10)

\* What the code does keep: the stride, and fewer than 20 coordinates.
StrideKept ==
    /\ pc = "sc_poi" =>
          /\ Visited(Len(routes[ri]), pi) <= Len(routes[ri])
          /\ Samples(routes[ri])[pi] = routes[ri][Visited(Len(routes[ri]), pi)]
          /\ pi < 20
    /\ pc = "sc_extract" =>
          /\ Visited(Len(coords), xi) <= Len(coords)
          /\ Samples(coords)[xi] = coords[Visited(Len(coords), xi)]
          /\ xi < 20
    /\ pc = "sc_elev" =>
          /\ Visited(Len(routes[ri]), pi) <= Len(routes[ri])
          /\ Visited(Len(routes[ri]), pi + 1) > Len(routes[ri])

\* A path of 19 points is visited at all its 19 coordinates by the scorer.
NineteenVisited ==
    /\ pc = "sc_elev"
    /\ Len(routes[ri]) = 19
    /\ pi = 19


\* C24: the extractor stops as soon as the fifth waypoint is accepted: the
\* samples are queried in sampling order, a query is outstanding only while
\* fewer than five waypoints are accepted, the sample that gives the fifth
\* is the last one queried, and every new top place before it was accepted
\* in order, so the list returned holds the first five distinct top places.
C24_StopsAtFifthWaypoint ==
    /\ [](pc = "sc_extract" => (Len(wpts) < 5 /\ xi <= Len(Samples(coords))))
    /\ [][ExtractorStep =>
            /\ pc' = "sc_extract" => xi' = xi + 1
            /\ pc' # "sc_extract" => xi' = xi
            /\ (Len(wpts') = 5) => (pc' # "sc_extract" /\ wpts'[5] = PlaceWaypoint(results'[1]))
            /\ (results' # <<>> /\ results'[1].place_id \notin seen) =>
                    wpts' = Append(wpts, PlaceWaypoint(results'[1]))
            /\ (results' = <<>> \/ results'[1].place_id \in seen) => wpts' = wpts
            /\ pc' \in {"sc_done", "sc_directions"} =>
                    waypoints' = waypoints \o wpts' \o <<points[leg + 1]>>]_vars
    /\ [][pc # "sc_extract" => (wpts' = wpts /\ xi' = xi /\ results' = results)]_vars

\* C24 witness: the extractor returned when its fifth place was accepted,
\* at a sample after which at least two more were left unqueried.
C24_Witness ==
    /\ pc = "sc_done"
    /\ Len(wpts) = 5
    /\ results # <<>>
    /\ wpts[5] = PlaceWaypoint(results[1])
    /\ xi + 2 <= Len(Samples(coords))
    /\ waypoints = <<Pt("O", 1, 1)>> \o wpts \o <<Pt("D", 4, 4)>>


\* Every key point of the scenic assembler is resolved.
KeyPointsResolved == pc \in {"sc_directions", "sc_poi", "sc_elev", "sc_extract", "sc_done"}

\* C25: in the scenic assembler, with the destination unset or blank and at
\* least one stop, the last stop becomes the destination and is consumed
\* from the stop list: it is the final key point and no intermediate one,
\* and the other stops keep their order between origin and destination.
C25_LastStopPromoted ==
    (KeyPointsResolved /\ intent.destination \in {None, "", " "} /\ intent.stops # <<>>) =>
        LET n == Len(intent.stops)
        IN  /\ Len(points) = n + 1
            /\ points[1] = ResolvedOrigin
            /\ points[n + 1] = ResolvedStop(intent.stops[n])
            /\ dest_point = points[n + 1]
            /\ \A k \in 1..(n - 1) : points[k + 1] = ResolvedStop(intent.stops[k])
            /\ stops = SubSeq(intent.stops, 1, n - 1)
            /\ (\A k \in 1..(n - 1) : ResolvedStop(intent.stops[k]) # ResolvedStop(intent.stops[n]))
                  => Cardinality({j \in 1..Len(points) :
                                     points[j] = ResolvedStop(intent.stops[n])}) = 1

\* C25 witness: a blank destination and two different stops, the last one
\* geocoded as the destination, and the assembly finished.
C25_Witness ==
    /\ pc = "sc_done"
    /\ intent.destination = " "
    /\ Len(intent.stops) = 2
    /\ intent.stops[1] # intent.stops[2]
    /\ ~HasGsr(intent.stops[2])
    /\ Len(points) = 3
    /\ waypoints[Len(waypoints)] = ResolvedStop(intent.stops[2])


\* The intermediate stops that need a geocoding call and have had none yet.
StopsToGeocode ==
    {k \in 1..Len(stops) : ~HasGsr(stops[k]) /\ ResolvedStop(stops[k]) \notin Range(points)}

\* C26: the scenic assembler resolves the origin first, the intermediate
\* stops in stop order next and the destination last: when a geocoding call
\* for the destination is issued, also for a promoted last stop, no
\* intermediate stop is left to geocode.
C26_DestinationResolvedLast ==
    /\ pc \in {"sc_promote", "sc_stops", "sc_dest"} => points[1] = ResolvedOrigin
    /\ pc = "sc_stops" =>
          \A k \in 1..(si - 1) : points[k + 1] = ResolvedStop(stops[k])
    /\ pc \in {"sc_promote", "sc_dest"} => StopsToGeocode = {}

\* What the code keeps: the origin is resolved first, the stops in order,
\* and a destination that was not promoted last.
UnpromotedDestinationLast ==
    /\ pc \in {"sc_promote", "sc_stops", "sc_dest"} => points[1] = ResolvedOrigin
    /\ pc = "sc_stops" =>
          \A k \in 1..(si - 1) : points[k + 1] = ResolvedStop(stops[k])
    /\ pc = "sc_dest" => StopsToGeocode = {}


\* The base route falls short of a parsed goal: its distance is below the
\* distance or the steps goal, or its calories, met x 3.5 x 70 / 200 per
\* minute, are below the calorie goal (goals and met in tenths).
Shortfall ==
    \/ target_m > 0 /\ 10 * route.distance < target_m
    \/ steps_m > 0 /\ 10 * route.distance < steps_m
    \/ target_cal > 0
         /\ (IF mode = "bicycling" THEN 60 ELSE 33) * 245 * route.duration
              < 12000 * target_cal

\* The text is a JSON array and nothing else.
CleanArray(text) ==
    /\ Len(text) >= 2
    /\ IsWord(text[1], "[")
    /\ IsWord(text[Len(text)], "]")
    /\ \A k \in 2..(Len(text) - 1) : IsItem(text[k])

\* C27: in the fitness assembler the planner is asked for supplementary
\* waypoints exactly when the base route falls short of a parsed goal, it
\* is asked once, and its waypoints are appended to the end of the base
\* output verbatim, in the order returned and without deduplication, the
\* base entries keeping their positions.
C27_ExtrasAppendedVerbatim ==
    /\ [][(pc = "ft_directions" /\ pc' # "ft_error") =>
            /\ pc' = "ft_extras" <=> Shortfall'
            /\ pc' = "ft_done" <=> ~Shortfall'
            /\ out' = BaseOut(intent, route', fpoi)
            /\ extras' = <<>>]_vars
    /\ [][(pc = "ft_extras" /\ pc' # "ft_error") =>
            /\ pc' = "ft_done"
            /\ out' = out \o extras'
            /\ CleanArray(reply') => extras' = SubSeq(reply', 2, Len(reply') - 1)]_vars
    /\ [][(extras' # extras \/ pc' = "ft_extras") => pc \in {"ft_directions", "ft_extras"}]_vars
    /\ [][pc = "ft_done" => (pc' \notin {"ft_extras", "ft_directions"} /\ out' = out)]_vars

\* C27 witness: the planner's two waypoints, the first one equal to the
\* base output's origin entry, follow the base output in its order.
C27_Witness ==
    /\ pc = "ft_done"
    /\ Shortfall
    /\ extras = <<Pt("O", 1, 1), Pt("X", 5, 5)>>
    /\ out = BaseOut(intent, route, fpoi) \o extras
    /\ out[1] = Pt("O", 1, 1)


\* The positions at which the scenic agent waits for a geocoding answer,
\* and those at which it waits for a routing, places or elevation answer.
GeoSteps == {"sc_origin", "sc_promote", "sc_stops", "sc_dest"}
LegSteps == {"sc_directions", "sc_poi", "sc_elev", "sc_extract"}

\* C28: the scenic agent's provider calls are issued one at a time and in
\* order: every key point is resolved before the first routing call; within
\* a leg the routing call precedes all scoring, each alternative's places
\* queries and its elevation query come before the next alternative's, all
\* scoring precedes the first extraction query; and every call of leg i
\* precedes every call of leg i + 1.
C28_ProviderCallsInOrder ==
    /\ [][(pc \in (GeoSteps \cup LegSteps)) =>
            pc' \in (GeoSteps \cup LegSteps \cup {"sc_done", "sc_error"})]_vars
    /\ [][(pc \in LegSteps) => (pc' \notin GeoSteps /\ points' = points /\ leg' >= leg)]_vars
    /\ [][(pc \in GeoSteps /\ pc' \in LegSteps) => (pc' = "sc_directions" /\ leg' = 1)]_vars
    /\ [][(pc = "sc_directions" /\ pc' # "sc_error") =>
            (pc' = "sc_poi" /\ leg' = leg /\ ri' = 1 /\ pi' = 1 /\ scored' = <<>>)]_vars
    /\ [][(pc = "sc_poi" /\ pc' # "sc_error") =>
            /\ leg' = leg /\ routes' = routes /\ ri' = ri /\ scored' = scored
            /\ IF pi < Len(Samples(routes[ri]))
               THEN pc' = "sc_poi" /\ pi' = pi + 1
               ELSE pc' = "sc_elev"]_vars
    /\ [][(pc = "sc_elev" /\ pc' # "sc_error") =>
            /\ leg' = leg /\ routes' = routes /\ Len(scored') = ri
            /\ IF ri < Len(routes)
               THEN pc' = "sc_poi" /\ ri' = ri + 1 /\ pi' = 1
               ELSE pc' = "sc_extract" /\ xi' = 1]_vars
    /\ [](pc = "sc_extract" => Len(scored) = Len(routes))
    /\ [][(pc = "sc_extract" /\ pc' # "sc_error") =>
            \/ pc' = "sc_extract" /\ leg' = leg /\ xi' = xi + 1 /\ coords' = coords
            \/ pc' = "sc_directions" /\ leg' = leg + 1
            \/ pc' = "sc_done" /\ leg' = leg /\ leg + 1 = Len(points)]_vars

\* C28 witness: a request of two legs is finished, the last leg having had
\* two alternatives scored and a waypoint extracted.
C28_Witness ==
    /\ pc = "sc_done"
    /\ leg = 2
    /\ Len(points) = 3
    /\ Len(scored) = 2
    /\ wpts # <<>>


\* C29: the scenic agent leaves the request as it received it: no step
\* changes the intent, and after a promotion the request's stop list still
\* ends with the promoted stop, which only the agent's own copy has lost,
\* whether the run returns or raises.
C29_IntentLeftUnchanged ==
    /\ [][(pc \in (GeoSteps \cup LegSteps)) => intent' = intent]_vars
    /\ [](last # NoPoint =>
            /\ intent.stops = Append(stops, last)
            /\ intent.destination \in {None, "", " "})

\* C29 witness: a run that promoted the last of two stops has returned; the
\* request still lists both.
C29_Witness ==
    /\ pc = "sc_done"
    /\ last # NoPoint
    /\ Len(intent.stops) = 2
    /\ Len(stops) = 1
    /\ dest_point = points[Len(points)]

\* A run that promoted a stop and raised afterwards.
RaisedAfterPromotion == pc = "sc_error" /\ last # NoPoint /\ Len(intent.stops) = 2

====
